---------------------------- MODULE Spec2Model ----------------------------
(***************************************************************************)
(* Workflow coordinator of sanjaya-app: OrchestratorAgent                  *)
(* (agents/orchestrator/orchestrator_agent.py).                            *)
(*                                                                         *)
(* One OrchestratorAgent object serves a sequence of workflow invocations. *)
(* Each invocation (run_feature_workflow or run_bugfix_workflow) is a      *)
(* single synchronous pass; the model cuts it into one action per numbered *)
(* step of the source, with the outcome of every collaborator call         *)
(* (config provider, repository client, codegen agent, subprocess,         *)
(* governance agent, bugfix agent) drawn nondeterministically.             *)
(*                                                                         *)
(* Python values: Optional[bool] is one of the strings "True", "False",    *)
(* "None"; a dictionary key that is not set is the string "absent"; an     *)
(* exception that leaves the workflow method is the outer status "raised". *)
(*                                                                         *)
(* The status resolver (SpecResolver) and the policy evaluator             *)
(* GovernanceAgent.evaluate of agents/governance/governance_agent.py       *)
(* (SpecGovernance) are also specified on their own, over every argument   *)
(* combination and over bounded diffs and project configurations; so are   *)
(* the contract-writing and text-generating methods of ProductAgent        *)
(* (SpecProduct) and two workflow invocations that share the               *)
(* orchestrator's RepoClient (SpecConcurrent).                             *)
(***************************************************************************)
EXTENDS Naturals, Sequences, FiniteSets, TLC

VARIABLES
    pc,           \* position of the current invocation inside the workflow method
    req,          \* arguments of the current invocation
    status,       \* second component of the returned tuple, "raised" for an exception
    message,      \* third component of the returned tuple
    details,      \* the details dictionary (local while running, returned at the end)
    governance_result, \* local governance_result of run_feature_workflow
    calls,        \* collaborator and step calls made by the current invocation, in order
    invocations,  \* number of invocations started on this OrchestratorAgent
    rs_in,        \* arguments handed to _compute_workflow_status
    rs_out,       \* value returned by _compute_workflow_status
    gov,          \* one GovernanceAgent.evaluate call: its arguments and locals
    product,      \* one ProductAgent and the call of one of its methods
    repo_client,  \* the RepoClient of one OrchestratorAgent: the repository it is bound to
    repositories, \* the git repositories of the projects of those invocations
    threads       \* workflow invocations running on that agent at the same time

vars == <<pc, req, status, message, details, governance_result, calls,
          invocations, rs_in, rs_out, gov, product, repo_client, repositories, threads>>

wfVars == <<pc, req, status, message, details, governance_result, calls, invocations>>

(***************************************************************************)
(* Bounds                                                                  *)
(***************************************************************************)
\* invocations served by one OrchestratorAgent object
MaxInvocations == 2

(***************************************************************************)
(* WorkflowStatus enum                                                     *)
(***************************************************************************)
SUCCESS == "success"
FAILED_TESTS == "failed_tests"
FAILED_SMOKE == "failed_smoke"
FAILED_GOVERNANCE == "failed_governance"
ERROR == "error"

WorkflowStatus == {SUCCESS, FAILED_TESTS, FAILED_SMOKE, FAILED_GOVERNANCE, ERROR}

OptBool == {"True", "False", "None"}

\* Python: x == y as an Optional[bool]-free bool, rendered as "True"/"False"
PyBool(b) == IF b THEN "True" ELSE "False"

(***************************************************************************)
(* _compute_workflow_status: three sequential `if ... return`, then the    *)
(* final return.  `x is False` holds for the value False only (not None).  *)
(***************************************************************************)
\* a resolver that ranks smoke above tests
compute_status_smoke_first(tests_passed, run_tests, smoke_passed, run_smoke, governance_ok, create_pr) ==
    IF run_smoke /\ smoke_passed = "False" THEN FAILED_SMOKE
    ELSE IF run_tests /\ tests_passed = "False" THEN FAILED_TESTS
    ELSE IF create_pr /\ governance_ok = "False" THEN FAILED_GOVERNANCE
    ELSE SUCCESS

\* a resolver that reads the passed values of steps that did not run
compute_status_ignores_ran(tests_passed, run_tests, smoke_passed, run_smoke, governance_ok, create_pr) ==
    IF tests_passed = "False" THEN FAILED_TESTS
    ELSE IF smoke_passed = "False" THEN FAILED_SMOKE
    ELSE IF governance_ok = "False" THEN FAILED_GOVERNANCE
    ELSE SUCCESS

_compute_workflow_status(tests_passed, run_tests, smoke_passed, run_smoke, governance_ok, create_pr) ==
    IF run_tests /\ tests_passed = "False" THEN FAILED_TESTS
    ELSE IF run_smoke /\ smoke_passed = "False" THEN FAILED_SMOKE
    ELSE IF create_pr /\ governance_ok = "False" THEN FAILED_GOVERNANCE
    ELSE SUCCESS

ResolverInputs ==
    [tests_passed : OptBool, run_tests : BOOLEAN,
     smoke_passed : OptBool, run_smoke : BOOLEAN,
     governance_ok : OptBool, create_pr : BOOLEAN]

NoResolverInput ==
    [tests_passed |-> "None", run_tests |-> FALSE,
     smoke_passed |-> "None", run_smoke |-> FALSE,
     governance_ok |-> "None", create_pr |-> FALSE]

Resolve(a) ==
    _compute_workflow_status(a.tests_passed, a.run_tests, a.smoke_passed,
                             a.run_smoke, a.governance_ok, a.create_pr)

\* no ProductAgent call is being followed
NoProductCall ==
    [pc |-> "none", method |-> "none", llm_client_arg |-> "None",
     llm_provider |-> "none", repo_path |-> "None", questionnaire |-> "none", llm_client |-> "unset",
     raised |-> "none", generate_calls |-> 0, written |-> FALSE]

\* no concurrent invocations are being followed
NoRepoClient == [_repo |-> "none"]
NoRepositories == <<>>
NoThreads == <<>>

\* no evaluate call is being followed
NoEvaluation ==
    [pc |-> "none", sections |-> <<>>, diff |-> <<>>, config |-> "none",
     changed_files |-> <<>>, violations |-> <<>>, ok |-> "none"]

(***************************************************************************)
(* Step runners                                                            *)
(***************************************************************************)
Languages == {"python", "javascript", "php", "go"}
TestCommands == {"", "make test"}
\* how a subprocess.run call ends
ProcOutcomes == {"exit_zero", "exit_nonzero", "TimeoutExpired", "OSError"}

\* _run_tests: the default command per language, `skipped` when there is none,
\* then the classification of the subprocess outcome.
default_test_cmd(language, test_cmd) ==
    IF test_cmd # "" THEN test_cmd
    ELSE IF language = "python" THEN "pytest"
    ELSE IF language \in {"js", "javascript", "node"} THEN "npm test"
    ELSE IF language = "php" THEN "phpunit"
    ELSE ""

\* a test runner that tells a timeout apart from other execution errors
run_tests_reports_timeout(language, test_cmd, proc) ==
    LET cmd == default_test_cmd(language, test_cmd) IN
    IF cmd = "" THEN [status |-> "skipped", command |-> ""]
    ELSE IF proc = "exit_zero" THEN [status |-> "passed", command |-> cmd]
    ELSE IF proc = "exit_nonzero" THEN [status |-> "failed", command |-> cmd]
    ELSE IF proc = "TimeoutExpired" THEN [status |-> "timeout", command |-> cmd]
    ELSE [status |-> "error", command |-> cmd]

_run_tests(language, test_cmd, proc) ==
    LET cmd == default_test_cmd(language, test_cmd) IN
    IF cmd = "" THEN [status |-> "skipped", command |-> ""]
    ELSE IF proc = "exit_zero" THEN [status |-> "passed", command |-> cmd]
    ELSE IF proc = "exit_nonzero" THEN [status |-> "failed", command |-> cmd]
    ELSE [status |-> "error", command |-> cmd]

\* A runtime target of the project config: the empty dict is falsy.
NoTarget == [nonempty |-> FALSE, install_command |-> "", smoke_command |-> ""]
Targets ==
    {NoTarget} \cup
    [nonempty : {TRUE}, install_command : {"", "pip install"}, smoke_command : {"", "curl"}]

\* runtime.get("backend_fastapi") or runtime.get("backend_php")
\*   or runtime.get("backend") or {}, with the frontend as fallback
smoke_target(runtime) ==
    LET backend_runtime ==
            IF runtime.backend_fastapi.nonempty THEN runtime.backend_fastapi
            ELSE IF runtime.backend_php.nonempty THEN runtime.backend_php
            ELSE IF runtime.backend.nonempty THEN runtime.backend
            ELSE NoTarget
        frontend_runtime ==
            IF runtime.frontend_next.nonempty THEN runtime.frontend_next ELSE NoTarget
    IN  IF backend_runtime.nonempty THEN backend_runtime ELSE frontend_runtime

\* a smoke runner whose generic handler also takes the timeout
run_smoke_timeout_as_error(runtime, install_proc, smoke_proc) ==
    LET target == smoke_target(runtime)
        skipped == [status |-> "skipped", install |-> "absent", smoke |-> "absent"]
        caught(p) == [status |-> "error", install |-> "absent", smoke |-> "absent"]
        installed == IF target.install_command # "" THEN install_proc ELSE "absent"
    IN  IF ~target.nonempty THEN skipped
        ELSE IF target.smoke_command = "" THEN skipped
        ELSE IF target.install_command # "" /\ install_proc \in {"TimeoutExpired", "OSError"}
            THEN caught(install_proc)
        ELSE IF target.install_command # "" /\ install_proc = "exit_nonzero"
            THEN [status |-> "install_failed", install |-> install_proc, smoke |-> "absent"]
        ELSE IF smoke_proc \in {"TimeoutExpired", "OSError"} THEN caught(smoke_proc)
        ELSE [status |-> IF smoke_proc = "exit_zero" THEN "passed" ELSE "failed",
              install |-> installed, smoke |-> smoke_proc]

\* _run_smoke: the returned dict, as its status and the install/smoke entries
\* it carries ("absent" when the key is not set).
_run_smoke(runtime, install_proc, smoke_proc) ==
    LET target == smoke_target(runtime)
        skipped == [status |-> "skipped", install |-> "absent", smoke |-> "absent"]
        caught(p) ==
            [status |-> IF p = "TimeoutExpired" THEN "timeout" ELSE "error",
             install |-> "absent", smoke |-> "absent"]
        installed == IF target.install_command # "" THEN install_proc ELSE "absent"
    IN  IF ~target.nonempty THEN skipped
        ELSE IF target.smoke_command = "" THEN skipped
        ELSE IF target.install_command # "" /\ install_proc \in {"TimeoutExpired", "OSError"}
            THEN caught(install_proc)
        ELSE IF target.install_command # "" /\ install_proc = "exit_nonzero"
            THEN [status |-> "install_failed", install |-> install_proc, smoke |-> "absent"]
        ELSE IF smoke_proc \in {"TimeoutExpired", "OSError"} THEN caught(smoke_proc)
        ELSE [status |-> IF smoke_proc = "exit_zero" THEN "passed" ELSE "failed",
              install |-> installed, smoke |-> smoke_proc]

\* a smoke runner that goes on to the smoke command after a failed install
smoke_runs_after_failed_install(runtime, install_proc, smoke_proc) ==
    LET target == smoke_target(runtime) IN
    IF ~target.nonempty \/ target.smoke_command = "" THEN <<>>
    ELSE IF target.install_command = "" THEN <<"smoke_command">>
    ELSE IF install_proc \in {"exit_zero", "exit_nonzero"}
        THEN <<"install_command", "smoke_command">>
    ELSE <<"install_command">>

\* the subprocess.run calls _run_smoke makes, in order
smoke_commands_run(runtime, install_proc, smoke_proc) ==
    LET target == smoke_target(runtime) IN
    IF ~target.nonempty \/ target.smoke_command = "" THEN <<>>
    ELSE IF target.install_command = "" THEN <<"smoke_command">>
    ELSE IF install_proc = "exit_zero" THEN <<"install_command", "smoke_command">>
    ELSE <<"install_command">>

\* _run_bugfix: every exception of the bugfix agent is turned into success False.
BugfixOutcomes == {"fixes", "llm_failure", "ValueError"}
_run_bugfix(outcome) ==
    IF outcome = "fixes" THEN [success |-> TRUE, error |-> "absent"]
    ELSE IF outcome = "llm_failure" THEN [success |-> FALSE, error |-> "absent"]
    ELSE [success |-> FALSE, error |-> "present"]

\* _create_pr: `fail` names the version-control call that raises ("none": no
\* call raises); a call that is not reached cannot raise.
VcsCalls ==
    {"set_repo_path", "create_branch", "checkout_branch", "commit_changes", "push_branch",
     "create_pull_request"}
RepoFullNames == {"", "org/repo"}
_create_pr(push_branch, repo_full_name, created, fail) ==
    IF fail \in {"set_repo_path", "create_branch"} THEN [raised |-> TRUE, status |-> "absent", error |-> "absent"]
    ELSE IF ~created /\ fail = "checkout_branch"
        THEN [raised |-> TRUE, status |-> "absent", error |-> "absent"]
    ELSE IF fail = "commit_changes" THEN [raised |-> TRUE, status |-> "absent", error |-> "absent"]
    ELSE IF push_branch /\ repo_full_name # ""
        THEN IF fail \in {"push_branch", "create_pull_request"}
             THEN [raised |-> FALSE, status |-> "stub", error |-> "present"]
             ELSE [raised |-> FALSE, status |-> "created", error |-> "absent"]
    ELSE [raised |-> FALSE, status |-> "stub", error |-> "absent"]

(***************************************************************************)
(* The details dictionary                                                  *)
(***************************************************************************)
\* Results of the step runners are kept by their status.
EmptyDetails ==
    [dry_run |-> "absent", workflow_steps |-> <<>>, test_result |-> "absent",
     bugfix_result |-> "absent", governance |-> "absent", pr |-> "absent",
     smoke_result |-> "absent", workflow_status |-> "absent",
     tests_passed |-> "absent", smoke_passed |-> "absent",
     governance_ok |-> "absent", error |-> "absent"]

\* the dict returned with a rejection or an error: {"error": str(e), ...}
ErrorDetails == [EmptyDetails EXCEPT !.error = "present"]

Requests ==
    [kind : {"feature"}, dry_run : BOOLEAN, run_codegen : BOOLEAN, run_tests : BOOLEAN,
     create_pr : BOOLEAN, push_branch : BOOLEAN, run_smoke : BOOLEAN, run_bugfix : BOOLEAN]
    \cup
    [kind : {"bugfix"}, dry_run : {FALSE}, run_codegen : {FALSE}, run_tests : BOOLEAN,
     create_pr : {FALSE}, push_branch : {FALSE}, run_smoke : {FALSE}, run_bugfix : BOOLEAN]

NoRequest ==
    [kind |-> "none", dry_run |-> FALSE, run_codegen |-> FALSE, run_tests |-> FALSE,
     create_pr |-> FALSE, push_branch |-> FALSE, run_smoke |-> FALSE, run_bugfix |-> FALSE]

\* outcomes of ConfigLoader.load_project_config
ConfigOutcomes == {"ok", "FileNotFoundError", "RuntimeError"}

Step(d, token) == [d EXCEPT !.workflow_steps = Append(@, token)]

\* `return workflow_id, st, msg, det`
Return(st, msg, det) ==
    /\ pc' = "done"
    /\ status' = st
    /\ message' = msg
    /\ details' = det

\* an exception leaves the workflow method: nothing is returned
Raise ==
    /\ pc' = "done"
    /\ status' = "raised"
    /\ message' = ""
    /\ details' = EmptyDetails

Goto(label) ==
    /\ pc' = label
    /\ UNCHANGED <<status, message>>

\* one entry of the call log: the call made and how it ended
Call(c, o) == [call |-> c, outcome |-> o]

Log(c, o) == calls' = Append(calls, Call(c, o))

\* the subprocess.run call of _run_tests with how it ended, then the return
test_calls(language, test_cmd, proc) ==
    (IF default_test_cmd(language, test_cmd) = "" THEN <<>>
     ELSE <<Call("test_command", proc)>>)
    \o <<Call("_run_tests", _run_tests(language, test_cmd, proc).status)>>

\* the subprocess.run calls of _run_smoke with how each ended, then the return
smoke_calls(runtime, install_proc, smoke_proc) ==
    LET cmds == smoke_commands_run(runtime, install_proc, smoke_proc) IN
    [i \in DOMAIN cmds |->
        Call(cmds[i], IF cmds[i] = "install_command" THEN install_proc ELSE smoke_proc)]
    \o <<Call("_run_smoke", _run_smoke(runtime, install_proc, smoke_proc).status)>>

(***************************************************************************)
(* Entry: a caller invokes one of the two workflow methods.                *)
(***************************************************************************)
Invoke ==
    /\ pc \in {"idle", "done"}
    /\ invocations < MaxInvocations
    /\ \E r \in Requests :
        /\ req' = r
        /\ pc' = IF r.kind = "feature" THEN "f_load_config" ELSE "b_load_config"
    /\ invocations' = invocations + 1
    /\ status' = "none"
    /\ message' = ""
    /\ details' = EmptyDetails
    /\ governance_result' = "None"
    /\ calls' = <<>>
    /\ rs_in' = NoResolverInput
    /\ rs_out' = "none"
    /\ UNCHANGED <<gov, product, repo_client, repositories, threads>>

(***************************************************************************)
(* run_feature_workflow                                                    *)
(***************************************************************************)
\* 1. Load project config
Feature_LoadConfig ==
    /\ pc = "f_load_config"
    /\ \E outcome \in ConfigOutcomes :
        /\ Log("load_project_config", outcome)
        /\ IF outcome = "ok" THEN Goto("f_get_repo_path") /\ UNCHANGED details
           ELSE IF outcome = "FileNotFoundError"
               THEN Return("rejected", "Project config not found", ErrorDetails)
           ELSE Raise
    /\ UNCHANGED <<req, governance_result, invocations, rs_in, rs_out, gov, product, repo_client, repositories, threads>>

\* 2. repo_path = get_repo_path(project_id); `if not repo_path: return rejected`
Feature_GetRepoPath ==
    /\ pc = "f_get_repo_path"
    /\ \E repo_path \in {"None", "configs/examples/p"} :
        /\ Log("get_repo_path", repo_path)
        /\ IF repo_path = "None"
               THEN Return("rejected", "Project repository not found", EmptyDetails)
               ELSE Goto("f_set_repo_path") /\ UNCHANGED details
    /\ UNCHANGED <<req, governance_result, invocations, rs_in, rs_out, gov, product, repo_client, repositories, threads>>

\* self.repo_client.set_repo_path(repo_path), outside any try
Feature_SetRepoPath ==
    /\ pc = "f_set_repo_path"
    /\ \E outcome \in {"ok", "raises"} :
        /\ Log("set_repo_path", outcome)
        /\ IF outcome = "ok" THEN Goto("f_validate_contract") /\ UNCHANGED details
           ELSE Raise
    /\ UNCHANGED <<req, governance_result, invocations, rs_in, rs_out, gov, product, repo_client, repositories, threads>>

\* the contract check made only for a run that is not a dry run
validate_contract_after_dry_run ==
    /\ pc = "f_validate_contract"
    /\ \E exists \in BOOLEAN :
        /\ Log("contract_exists", PyBool(exists))
        /\ IF ~exists /\ ~req.dry_run
               THEN Return("rejected", "Design contract missing", EmptyDetails)
               ELSE Goto("f_dry_run") /\ UNCHANGED details
    /\ UNCHANGED <<req, governance_result, invocations, rs_in, rs_out, gov, product, repo_client, repositories, threads>>

\* Check if contract file exists
Feature_ValidateContract ==
    /\ pc = "f_validate_contract"
    /\ \E exists \in BOOLEAN :
        /\ Log("contract_exists", PyBool(exists))
        /\ IF ~exists
               THEN Return("rejected", "Design contract missing", EmptyDetails)
               ELSE Goto("f_dry_run") /\ UNCHANGED details
    /\ UNCHANGED <<req, governance_result, invocations, rs_in, rs_out, gov, product, repo_client, repositories, threads>>

\* the payload of step 3
InitialDetails ==
    [EmptyDetails EXCEPT
        !.dry_run = PyBool(req.dry_run),
        !.workflow_steps = <<"load_project_config", "validate_contract_exists">>]

\* a dry run that does not stop after validation
dry_run_falls_through ==
    /\ pc = "f_dry_run"
    /\ Goto("f_codegen")
    /\ details' = InitialDetails
    /\ UNCHANGED <<req, governance_result, calls, invocations, rs_in, rs_out, gov, product, repo_client, repositories, threads>>

\* 3. Workflow response payload; 4. If dry_run, stop after validation
Feature_DryRun ==
    /\ pc = "f_dry_run"
    /\ IF req.dry_run
       THEN Return("accepted", "Feature workflow validated (dry_run)",
                   [InitialDetails EXCEPT !.workflow_steps = @ \o
                       <<"prepare_codegen_inputs",
                         "invoke_codegen_agent (skipped, dry_run)",
                         "run_tests (skipped, dry_run)",
                         "prepare_pull_request (skipped, dry_run)">>])
       ELSE Goto("f_codegen") /\ details' = InitialDetails
    /\ UNCHANGED <<req, governance_result, calls, invocations, rs_in, rs_out, gov, product, repo_client, repositories, threads>>

\* the calls of step 5: self.repo_client.set_repo_path(repo_path), then
\* generate_artifacts when the repository opened
codegen_calls(opened, outcome) ==
    IF opened = "raises" THEN <<Call("set_repo_path", "raises")>>
    ELSE <<Call("set_repo_path", "ok"), Call("generate_artifacts", outcome)>>

\* a codegen exception that is recorded and does not end the workflow
codegen_error_continues ==
    /\ pc = "f_codegen"
    /\ IF req.run_codegen
       THEN \E opened \in {"ok", "raises"}, outcome \in {"ok", "raises"} :
            /\ calls' = calls \o codegen_calls(opened, outcome)
            /\ Goto("f_tests")
            /\ details' = IF opened = "ok" /\ outcome = "ok"
                              THEN Step(details, "invoke_codegen_agent")
                              ELSE [details EXCEPT !.error = "present"]
       ELSE /\ Goto("f_tests")
            /\ details' = Step(details, "invoke_codegen_agent (skipped)")
            /\ UNCHANGED calls
    /\ UNCHANGED <<req, governance_result, invocations, rs_in, rs_out, gov, product, repo_client, repositories, threads>>

\* 5. Execute codegen if requested
Feature_Codegen ==
    /\ pc = "f_codegen"
    /\ IF req.run_codegen
       THEN \E opened \in {"ok", "raises"}, outcome \in {"ok", "raises"} :
            /\ calls' = calls \o codegen_calls(opened, outcome)
            /\ IF opened = "raises" \/ outcome = "raises"
                   THEN Return("error", "Codegen failed", ErrorDetails)
                   ELSE Goto("f_tests") /\ details' = Step(details, "invoke_codegen_agent")
       ELSE /\ Goto("f_tests")
            /\ details' = Step(details, "invoke_codegen_agent (skipped)")
            /\ UNCHANGED calls
    /\ UNCHANGED <<req, governance_result, invocations, rs_in, rs_out, gov, product, repo_client, repositories, threads>>

\* a gate that also fires when the test step did not end `passed`
bugfix_gate_not_passed(run_bugfix, test_status) ==
    run_bugfix /\ test_status # "passed"

\* 6a. `if run_bugfix and test_result.get("status") == "failed"`
feature_bugfix_gate(run_bugfix, test_status) ==
    run_bugfix /\ test_status = "failed"

\* 6. Run tests if requested
Feature_RunTests ==
    /\ pc = "f_tests"
    /\ IF req.run_tests
       THEN \E language \in Languages, test_cmd \in TestCommands, proc \in ProcOutcomes :
            LET test_result == _run_tests(language, test_cmd, proc) IN
            /\ calls' = calls \o test_calls(language, test_cmd, proc)
            /\ details' = [Step(details, "run_tests") EXCEPT
                              !.test_result = test_result.status]
            /\ IF feature_bugfix_gate(req.run_bugfix, test_result.status)
                   THEN Goto("f_bugfix")
                   ELSE Goto("f_governance")
       ELSE /\ Goto("f_governance")
            /\ details' = Step(details, "run_tests (skipped)")
            /\ UNCHANGED calls
    /\ UNCHANGED <<req, governance_result, invocations, rs_in, rs_out, gov, product, repo_client, repositories, threads>>

\* a remediation step after which the tests are run again
rerun_tests_after_bugfix ==
    /\ pc = "f_bugfix"
    /\ \E outcome \in BugfixOutcomes :
        /\ Log("_run_bugfix", outcome)
        /\ details' = [Step(details, "run_bugfix") EXCEPT
                          !.bugfix_result = PyBool(_run_bugfix(outcome).success)]
    /\ Goto("f_tests")
    /\ UNCHANGED <<req, governance_result, invocations, rs_in, rs_out, gov, product, repo_client, repositories, threads>>

\* 6a. suggest fixes
Feature_RunBugfix ==
    /\ pc = "f_bugfix"
    /\ \E outcome \in BugfixOutcomes :
        /\ Log("_run_bugfix", outcome)
        /\ details' = [Step(details, "run_bugfix") EXCEPT
                          !.bugfix_result = PyBool(_run_bugfix(outcome).success)]
    /\ Goto("f_governance")
    /\ UNCHANGED <<req, governance_result, invocations, rs_in, rs_out, gov, product, repo_client, repositories, threads>>

GovernanceOutcomes == {"ok", "violations", "get_diff_raises", "evaluate_raises"}

\* the calls the governance step makes for an outcome
governance_calls(outcome) ==
    IF outcome = "get_diff_raises" THEN <<Call("get_diff", "raises")>>
    ELSE IF outcome = "evaluate_raises"
        THEN <<Call("get_diff", "ok"), Call("evaluate", "raises")>>
    ELSE <<Call("get_diff", "ok"), Call("evaluate", outcome)>>

\* a governance step whose exception ends the workflow
governance_error_aborts ==
    /\ pc = "f_governance"
    /\ IF req.create_pr
       THEN \E outcome \in GovernanceOutcomes :
            /\ calls' = calls \o governance_calls(outcome)
            /\ IF outcome \in {"get_diff_raises", "evaluate_raises"}
               THEN /\ Return("error", "Governance failed", ErrorDetails)
                    /\ governance_result' = "None"
               ELSE /\ details' = [Step(details, "governance_check") EXCEPT
                                      !.governance = outcome]
                    /\ governance_result' = IF outcome = "ok" THEN "ok" ELSE "not_ok"
                    /\ Goto("f_create_pr")
       ELSE /\ governance_result' = "None"
            /\ Goto("f_create_pr")
            /\ UNCHANGED <<calls, details>>
    /\ UNCHANGED <<req, invocations, rs_in, rs_out, gov, product, repo_client, repositories, threads>>

\* a governance step whose exception is recorded as a failed verdict
governance_error_counts_as_violation ==
    /\ pc = "f_governance"
    /\ IF req.create_pr
       THEN \E outcome \in GovernanceOutcomes :
            /\ calls' = calls \o governance_calls(outcome)
            /\ IF outcome \in {"get_diff_raises", "evaluate_raises"}
               THEN /\ details' = [details EXCEPT !.governance = "error"]
                    /\ governance_result' = "not_ok"
               ELSE /\ details' = [Step(details, "governance_check") EXCEPT
                                      !.governance = outcome]
                    /\ governance_result' = IF outcome = "ok" THEN "ok" ELSE "not_ok"
       ELSE /\ governance_result' = "None"
            /\ UNCHANGED <<calls, details>>
    /\ Goto("f_create_pr")
    /\ UNCHANGED <<req, invocations, rs_in, rs_out, gov, product, repo_client, repositories, threads>>

\* 7. Run governance check before PR creation
Feature_Governance ==
    /\ pc = "f_governance"
    /\ IF req.create_pr
       THEN \E outcome \in GovernanceOutcomes :
            /\ calls' = calls \o governance_calls(outcome)
            /\ IF outcome \in {"get_diff_raises", "evaluate_raises"}
               THEN /\ details' = [details EXCEPT !.governance = "error"]
                    /\ governance_result' = "None"
               ELSE /\ details' = [Step(details, "governance_check") EXCEPT
                                      !.governance = outcome]
                    /\ governance_result' = IF outcome = "ok" THEN "ok" ELSE "not_ok"
       ELSE /\ governance_result' = "None"
            /\ UNCHANGED <<calls, details>>
    /\ Goto("f_create_pr")
    /\ UNCHANGED <<req, invocations, rs_in, rs_out, gov, product, repo_client, repositories, threads>>

\* 8. Create PR (real or stub) if requested
Feature_CreatePr ==
    /\ pc = "f_create_pr"
    /\ IF req.create_pr
       THEN \E repo_full_name \in RepoFullNames, created \in BOOLEAN,
               fail \in VcsCalls \cup {"none"} :
            LET pr_info == _create_pr(req.push_branch, repo_full_name, created, fail) IN
            IF pr_info.raised
            THEN Log("_create_pr", "raises") /\ Raise
            ELSE /\ Log("_create_pr", pr_info.status)
                 /\ Goto("f_smoke")
                 /\ details' = [Step(details, "prepare_pull_request") EXCEPT
                                   !.pr = pr_info.status]
       ELSE /\ Goto("f_smoke")
            /\ details' = Step(details, "prepare_pull_request (skipped)")
            /\ UNCHANGED calls
    /\ UNCHANGED <<req, governance_result, invocations, rs_in, rs_out, gov, product, repo_client, repositories, threads>>

\* runtime sections of the project config
Runtimes ==
    [backend_fastapi : Targets, backend_php : {NoTarget}, backend : {NoTarget},
     frontend_next : Targets]

\* 9. Run smoke if requested
Feature_RunSmoke ==
    /\ pc = "f_smoke"
    /\ IF req.run_smoke
       THEN \E runtime \in Runtimes, install_proc \in ProcOutcomes, smoke_proc \in ProcOutcomes :
            LET smoke_result == _run_smoke(runtime, install_proc, smoke_proc) IN
            /\ calls' = calls \o smoke_calls(runtime, install_proc, smoke_proc)
            /\ details' = [Step(details, "run_smoke") EXCEPT
                              !.smoke_result = smoke_result.status]
       ELSE /\ details' = Step(details, "run_smoke (skipped)")
            /\ UNCHANGED calls
    /\ Goto("f_status")
    /\ UNCHANGED <<req, governance_result, invocations, rs_in, rs_out, gov, product, repo_client, repositories, threads>>

\* a test step that counts as passed unless it failed
feature_tests_passed_unless_failed(test_result, run_tests) ==
    IF test_result = "absent"
        THEN IF run_tests THEN "False" ELSE "None"
        ELSE PyBool(test_result # "failed")

\* 10. tests_passed = status == "passed" if test_result_data else None;
\*     `if run_tests and tests_passed is None: tests_passed = False`
feature_tests_passed(test_result, run_tests) ==
    IF test_result = "absent"
        THEN IF run_tests THEN "False" ELSE "None"
        ELSE PyBool(test_result = "passed")

\* `if run_smoke and smoke_result: smoke_passed = status == "passed"`
feature_smoke_passed(smoke_result, run_smoke) ==
    IF run_smoke /\ smoke_result # "absent" THEN PyBool(smoke_result = "passed") ELSE "None"

\* a policy check that was not made counts as passed
governance_ok_defaults_true(gov_result, create_pr) ==
    IF create_pr /\ gov_result # "None" THEN PyBool(gov_result = "ok") ELSE "True"

\* `if create_pr and governance_result: governance_ok = governance_result.ok`
feature_governance_ok(gov_result, create_pr) ==
    IF create_pr /\ gov_result # "None" THEN PyBool(gov_result = "ok") ELSE "None"

\* 10. Compute workflow status and add status fields
Feature_ComputeStatus ==
    /\ pc = "f_status"
    /\ LET a == [tests_passed |-> feature_tests_passed(details.test_result, req.run_tests),
                 run_tests |-> req.run_tests,
                 smoke_passed |-> feature_smoke_passed(details.smoke_result, req.run_smoke),
                 run_smoke |-> req.run_smoke,
                 governance_ok |-> feature_governance_ok(governance_result, req.create_pr),
                 create_pr |-> req.create_pr]
       IN  /\ rs_in' = a
           /\ rs_out' = Resolve(a)
           /\ Log("_compute_workflow_status", Resolve(a))
           /\ Return("accepted", "Feature workflow executed",
                     [details EXCEPT !.workflow_status = Resolve(a),
                                     !.tests_passed = a.tests_passed,
                                     !.smoke_passed = a.smoke_passed,
                                     !.governance_ok = a.governance_ok])
    /\ UNCHANGED <<req, governance_result, invocations, gov, product, repo_client, repositories, threads>>

(***************************************************************************)
(* run_bugfix_workflow                                                     *)
(***************************************************************************)
\* 1. Load project config
Bugfix_LoadConfig ==
    /\ pc = "b_load_config"
    /\ \E outcome \in ConfigOutcomes :
        /\ Log("load_project_config", outcome)
        /\ IF outcome = "ok" THEN Goto("b_get_repo_path") /\ UNCHANGED details
           ELSE IF outcome = "FileNotFoundError"
               THEN Return("rejected", "Project config not found", ErrorDetails)
           ELSE Raise
    /\ UNCHANGED <<req, governance_result, invocations, rs_in, rs_out, gov, product, repo_client, repositories, threads>>

\* 2. Get repo path
Bugfix_GetRepoPath ==
    /\ pc = "b_get_repo_path"
    /\ \E repo_path \in {"None", "configs/examples/p"} :
        /\ Log("get_repo_path", repo_path)
        /\ IF repo_path = "None"
               THEN Return("rejected", "Project repository not found", EmptyDetails)
               ELSE Goto("b_set_repo_path") /\ UNCHANGED details
    /\ UNCHANGED <<req, governance_result, invocations, rs_in, rs_out, gov, product, repo_client, repositories, threads>>

\* self.repo_client.set_repo_path(repo_path), outside any try; then details
Bugfix_SetRepoPath ==
    /\ pc = "b_set_repo_path"
    /\ \E outcome \in {"ok", "raises"} :
        /\ Log("set_repo_path", outcome)
        /\ IF outcome = "ok"
               THEN /\ Goto("b_tests")
                    /\ details' = [EmptyDetails EXCEPT
                                      !.workflow_steps = <<"load_project_config">>]
               ELSE Raise
    /\ UNCHANGED <<req, governance_result, invocations, rs_in, rs_out, gov, product, repo_client, repositories, threads>>

\* 3. Run tests
Bugfix_RunTests ==
    /\ pc = "b_tests"
    /\ IF req.run_tests
       THEN \E language \in Languages, test_cmd \in TestCommands, proc \in ProcOutcomes :
            LET test_result == _run_tests(language, test_cmd, proc) IN
            /\ calls' = calls \o test_calls(language, test_cmd, proc)
            /\ details' = [Step(details, "run_tests") EXCEPT
                              !.test_result = test_result.status]
       ELSE /\ details' = Step(details, "run_tests (skipped)")
            /\ UNCHANGED calls
    /\ Goto("b_bugfix")
    /\ UNCHANGED <<req, governance_result, invocations, rs_in, rs_out, gov, product, repo_client, repositories, threads>>

\* 4. `if run_tests and test_result and test_result.get("status") == "failed" and run_bugfix`
bugfix_bugfix_gate(run_tests, test_result, run_bugfix) ==
    run_tests /\ test_result # "absent" /\ test_result = "failed" /\ run_bugfix

\* 4. If tests failed and run_bugfix=True, suggest fixes; an exception of
\*    get_diff is caught (changed_files = [])
Bugfix_RunBugfix ==
    /\ pc = "b_bugfix"
    /\ IF bugfix_bugfix_gate(req.run_tests, details.test_result, req.run_bugfix)
       THEN \E diff \in {"ok", "raises"}, outcome \in BugfixOutcomes :
            /\ calls' = calls \o <<Call("get_diff", diff), Call("_run_bugfix", outcome)>>
            /\ details' = [Step(details, "run_bugfix") EXCEPT
                              !.bugfix_result = PyBool(_run_bugfix(outcome).success)]
       ELSE UNCHANGED <<calls, details>>
    /\ Goto("b_status")
    /\ UNCHANGED <<req, governance_result, invocations, rs_in, rs_out, gov, product, repo_client, repositories, threads>>

\* only a test step that ran and failed counts against the bugfix workflow
bugfix_tests_passed_unless_failed(test_result, run_tests) ==
    IF run_tests THEN PyBool(test_result \notin {"failed", "error"}) ELSE "None"

\* 3. tests_passed = None; `tests_passed = test_result.get("status") == "passed"`
bugfix_tests_passed(test_result, run_tests) ==
    IF run_tests THEN PyBool(test_result = "passed") ELSE "None"

\* a status step that returns without writing workflow_status into the report
bugfix_status_not_recorded ==
    /\ pc = "b_status"
    /\ LET a == [tests_passed |-> bugfix_tests_passed(details.test_result, req.run_tests),
                 run_tests |-> req.run_tests,
                 smoke_passed |-> "None", run_smoke |-> FALSE,
                 governance_ok |-> "None", create_pr |-> FALSE]
       IN  /\ rs_in' = a
           /\ rs_out' = Resolve(a)
           /\ Log("_compute_workflow_status", Resolve(a))
           /\ Return("accepted", "Bugfix workflow executed",
                     [details EXCEPT !.tests_passed = a.tests_passed,
                                     !.smoke_passed = "None",
                                     !.governance_ok = "None"])
    /\ UNCHANGED <<req, governance_result, invocations, gov, product, repo_client, repositories, threads>>

\* 5. Compute workflow status
Bugfix_ComputeStatus ==
    /\ pc = "b_status"
    /\ LET a == [tests_passed |-> bugfix_tests_passed(details.test_result, req.run_tests),
                 run_tests |-> req.run_tests,
                 smoke_passed |-> "None", run_smoke |-> FALSE,
                 governance_ok |-> "None", create_pr |-> FALSE]
       IN  /\ rs_in' = a
           /\ rs_out' = Resolve(a)
           /\ Log("_compute_workflow_status", Resolve(a))
           /\ Return("accepted", "Bugfix workflow executed",
                     [details EXCEPT !.workflow_status = Resolve(a),
                                     !.tests_passed = a.tests_passed,
                                     !.smoke_passed = "None",
                                     !.governance_ok = "None"])
    /\ UNCHANGED <<req, governance_result, invocations, gov, product, repo_client, repositories, threads>>

(***************************************************************************)
(* Specification of the coordinator                                        *)
(***************************************************************************)
\* OrchestratorAgent.__init__: no invocation yet
Init ==
    /\ pc = "idle"
    /\ req = NoRequest
    /\ status = "none"
    /\ message = ""
    /\ details = EmptyDetails
    /\ governance_result = "None"
    /\ calls = <<>>
    /\ invocations = 0
    /\ rs_in = NoResolverInput
    /\ rs_out = "none"
    /\ gov = NoEvaluation
    /\ product = NoProductCall
    /\ repo_client = NoRepoClient
    /\ repositories = NoRepositories
    /\ threads = NoThreads

Next ==
    \/ Invoke
    \/ Feature_LoadConfig
    \/ Feature_GetRepoPath
    \/ Feature_SetRepoPath
    \/ Feature_ValidateContract
    \/ Feature_DryRun
    \/ Feature_Codegen
    \/ Feature_RunTests
    \/ Feature_RunBugfix
    \/ Feature_Governance
    \/ Feature_CreatePr
    \/ Feature_RunSmoke
    \/ Feature_ComputeStatus
    \/ Bugfix_LoadConfig
    \/ Bugfix_GetRepoPath
    \/ Bugfix_SetRepoPath
    \/ Bugfix_RunTests
    \/ Bugfix_RunBugfix
    \/ Bugfix_ComputeStatus

Spec == Init /\ [][Next]_vars

(***************************************************************************)
(* Specification of the status resolver alone: every argument combination  *)
(* is an initial state and the one action applies the function.            *)
(***************************************************************************)
InitResolver ==
    /\ pc = "resolver"
    /\ req = NoRequest
    /\ status = "none"
    /\ message = ""
    /\ details = EmptyDetails
    /\ governance_result = "None"
    /\ calls = <<>>
    /\ invocations = 0
    /\ rs_in \in ResolverInputs
    /\ rs_out = "none"
    /\ gov = NoEvaluation
    /\ product = NoProductCall
    /\ repo_client = NoRepoClient
    /\ repositories = NoRepositories
    /\ threads = NoThreads

ComputeWorkflowStatus ==
    /\ pc = "resolver"
    /\ rs_out = "none"
    /\ rs_out' = Resolve(rs_in)
    /\ UNCHANGED <<rs_in, wfVars, gov, product, repo_client, repositories, threads>>

NextResolver == ComputeWorkflowStatus

SpecResolver == InitResolver /\ [][NextResolver]_vars

(***************************************************************************)
(* Python strings of the governance agent                                  *)
(*                                                                         *)
(* A str is a sequence of one-character strings, so that prefix tests,     *)
(* stripping and glob matching are computed character by character.        *)
(***************************************************************************)
\* the characters of the model in code-point order: the control characters
\* U+0009..U+000D and U+001C..U+001F, U+0020..U+007E without U+0060 (a string
\* cannot hold it), U+0085, U+00A0
Characters ==
    <<
      "\t", "\n", "", "\f", "\r", "", "", "", "", " ", "!", "\"", "#",
      "$", "%", "&", "'", "(", ")", "*", "+", ",", "-", ".", "/", "0", "1",
      "2", "3", "4", "5", "6", "7", "8", "9", ":", ";", "<", "=", ">", "?",
      "@", "A", "B", "C", "D", "E", "F", "G", "H", "I", "J", "K", "L", "M",
      "N", "O", "P", "Q", "R", "S", "T", "U", "V", "W", "X", "Y", "Z", "[",
      "\\", "]", "^", "_", "a", "b", "c", "d", "e", "f", "g", "h", "i",
      "j", "k", "l", "m", "n", "o", "p", "q", "r", "s", "t", "u", "v", "w",
      "x", "y", "z", "{", "|", "}", "~", "", " "
    >>

\* position of a character in that order; ord(c) < ord(d) as in Python
ord(c) == CHOOSE k \in DOMAIN Characters : Characters[k] = c

\* str.lower(): "A".."Z" become "a".."z", every other character is kept
lower_char(c) ==
    IF /\ \E k \in DOMAIN Characters : Characters[k] = c
       /\ ord("A") <= ord(c) /\ ord(c) <= ord("Z")
    THEN Characters[ord(c) + (ord("a") - ord("A"))]
    ELSE c

lower(s) == [i \in DOMAIN s |-> lower_char(s[i])]

startswith(s, prefix) == Len(s) >= Len(prefix) /\ SubSeq(s, 1, Len(prefix)) = prefix

endswith(s, suffix) ==
    Len(s) >= Len(suffix) /\ SubSeq(s, Len(s) - Len(suffix) + 1, Len(s)) = suffix

\* `sub in s`
contains(s, sub) ==
    \E i \in 1..(Len(s) - Len(sub) + 1) : SubSeq(s, i, i + Len(sub) - 1) = sub

\* s.replace(old, ""): occurrences are removed left to right
RECURSIVE remove_all(_, _)
remove_all(s, old) ==
    IF s = <<>> THEN <<>>
    ELSE IF startswith(s, old) THEN remove_all(SubSeq(s, Len(old) + 1, Len(s)), old)
    ELSE <<Head(s)>> \o remove_all(Tail(s), old)

\* s.lstrip(chars) and s.rstrip(chars): chars is a SET of characters, every
\* leading (trailing) character that belongs to it is dropped
RECURSIVE lstrip(_, _)
lstrip(s, chars) ==
    IF s # <<>> /\ Head(s) \in chars THEN lstrip(Tail(s), chars) ELSE s

RECURSIVE rstrip(_, _)
rstrip(s, chars) ==
    IF s # <<>> /\ s[Len(s)] \in chars THEN rstrip(SubSeq(s, 1, Len(s) - 1), chars) ELSE s

\* the characters str.strip() removes, among those of the model
Whitespace ==
    {"\t", "\n", "", "\f", "\r", "", "", "", "", " ", "", " "}
strip(s) == rstrip(lstrip(s, Whitespace), Whitespace)
strip_chars(s, chars) == rstrip(lstrip(s, chars), chars)

\* s.split(sep)[0]: the part of s before the first occurrence of sep
RECURSIVE before(_, _)
before(s, sep) ==
    IF s = <<>> \/ startswith(s, sep) THEN <<>>
    ELSE <<Head(s)>> \o before(Tail(s), sep)

\* `x in list`
InList(x, list) == \E i \in DOMAIN list : list[i] = x

\* fnmatch.translate, `[`: the position of the `]` that closes a class whose
\* body starts at i (a leading `!` and a `]` right after it belong to the
\* body), 0 when there is none
RECURSIVE scan_class(_, _)
scan_class(pat, j) ==
    IF j > Len(pat) THEN 0
    ELSE IF pat[j] = "]" THEN j
    ELSE scan_class(pat, j + 1)

class_end(pat, i) ==
    LET j1 == IF i <= Len(pat) /\ pat[i] = "!" THEN i + 1 ELSE i
        j2 == IF j1 <= Len(pat) /\ pat[j1] = "]" THEN j1 + 1 ELSE j1
    IN  scan_class(pat, j2)

\* pat.find('-', k, j) inside the class body, 0 when there is none
RECURSIVE find_hyphen(_, _)
find_hyphen(stuff, k) ==
    IF k > Len(stuff) THEN 0
    ELSE IF stuff[k] = "-" THEN k
    ELSE find_hyphen(stuff, k + 1)

\* the chunks between the hyphens that make ranges
RECURSIVE class_chunks(_, _, _, _)
class_chunks(stuff, start, k, chunks) ==
    LET h == find_hyphen(stuff, k) IN
    IF h = 0
    THEN LET chunk == SubSeq(stuff, start, Len(stuff)) IN
         IF chunk # <<>> THEN Append(chunks, chunk)
         ELSE [chunks EXCEPT ![Len(chunks)] = Append(@, "-")]
    ELSE class_chunks(stuff, h + 1, h + 3, Append(chunks, SubSeq(stuff, start, h - 1)))

\* "Remove empty ranges": a range whose first character is above its last is
\* dropped with both characters
RECURSIVE remove_empty_ranges(_, _)
remove_empty_ranges(chunks, k) ==
    IF k < 2 THEN chunks
    ELSE LET a == chunks[k - 1]
             b == chunks[k]
         IN  IF ord(a[Len(a)]) > ord(b[1])
             THEN remove_empty_ranges(
                      SubSeq(chunks, 1, k - 2)
                          \o <<SubSeq(a, 1, Len(a) - 1) \o Tail(b)>>
                          \o SubSeq(chunks, k + 1, Len(chunks)),
                      k - 1)
             ELSE remove_empty_ranges(chunks, k - 1)

\* whether character c matches the class `[stuff]`
in_class(c, stuff) ==
    LET chunks == IF ~InList("-", stuff) THEN <<stuff>>
                  ELSE LET found == class_chunks(stuff, 1,
                                       IF stuff[1] = "!" THEN 3 ELSE 2, <<>>)
                       IN  remove_empty_ranges(found, Len(found))
        negate == chunks[1] # <<>> /\ chunks[1][1] = "!"
        body == [k \in DOMAIN chunks |->
                    IF k = 1 /\ negate THEN Tail(chunks[1]) ELSE chunks[k]]
        m == Len(body)
        \* the class is `!` and a hyphen that joins the next chunk: the regular
        \* expression [^-...] takes that hyphen as a character, not as a range
        leading_hyphen == m > 1 /\ body[1] = <<>>
        literal(k, p) ==
            /\ ~(k < m /\ p = Len(body[k]))
            /\ ~(k > 1 /\ p = 1 /\ ~(k = 2 /\ leading_hyphen))
        member ==
            \/ \E k \in 1..m : \E p \in DOMAIN body[k] : literal(k, p) /\ body[k][p] = c
            \/ leading_hyphen /\ c = "-"
            \/ \E k \in 1..(m - 1) :
                   /\ ~(k = 1 /\ leading_hyphen)
                   /\ ord(body[k][Len(body[k])]) <= ord(c)
                   /\ ord(c) <= ord(body[k + 1][1])
    IN  IF negate THEN ~member ELSE member

\* fnmatch.fnmatch(name, pat) on a POSIX system: `*` matches any run of
\* characters, `/` included, `?` matches one character, `[seq]` one character
\* of a class (a `[` that is not closed matches itself), any other character
\* matches itself
RECURSIVE fnmatch_from(_, _, _, _)
fnmatch_from(name, i, pat, j) ==
    IF j > Len(pat) THEN i > Len(name)
    ELSE IF pat[j] = "*"
        THEN \E k \in i..(Len(name) + 1) : fnmatch_from(name, k, pat, j + 1)
    ELSE IF pat[j] = "?" THEN i <= Len(name) /\ fnmatch_from(name, i + 1, pat, j + 1)
    ELSE IF pat[j] = "[" /\ class_end(pat, j + 1) # 0
        THEN /\ i <= Len(name)
             /\ in_class(name[i], SubSeq(pat, j + 1, class_end(pat, j + 1) - 1))
             /\ fnmatch_from(name, i + 1, pat, class_end(pat, j + 1) + 1)
    ELSE i <= Len(name) /\ name[i] = pat[j] /\ fnmatch_from(name, i + 1, pat, j + 1)

fnmatch(name, pat) == fnmatch_from(name, 1, pat, 1)

\* GovernanceAgent._matches_patterns
_matches_patterns(file_path, patterns) ==
    \E i \in DOMAIN patterns : fnmatch(file_path, patterns[i])

(***************************************************************************)
(* agents/governance/prompts.py                                            *)
(***************************************************************************)
\* the languages the rules know, as project_config["language"].lower() gives them
lang_python == <<"p", "y", "t", "h", "o", "n">>
lang_javascript == <<"j", "a", "v", "a", "s", "c", "r", "i", "p", "t">>
lang_php == <<"p", "h", "p">>

\* "**/.env", "**/.env.*", "**/secrets/**", "**/credentials/**", "**/*.key",
\* "**/*.pem", "**/*.p12"
FORBIDDEN_PATHS_DEFAULT ==
    <<<<"*", "*", "/", ".", "e", "n", "v">>,
      <<"*", "*", "/", ".", "e", "n", "v", ".", "*">>,
      <<"*", "*", "/", "s", "e", "c", "r", "e", "t", "s", "/", "*", "*">>,
      <<"*", "*", "/", "c", "r", "e", "d", "e", "n", "t", "i", "a", "l", "s", "/", "*", "*">>,
      <<"*", "*", "/", "*", ".", "k", "e", "y">>,
      <<"*", "*", "/", "*", ".", "p", "e", "m">>,
      <<"*", "*", "/", "*", ".", "p", "1", "2">>>>

\* python: "**/*.py"; javascript: "**/*.js", "**/*.ts", "**/*.jsx", "**/*.tsx";
\* php: "**/*.php"; any other language: []
REQUIRE_TESTS_FOR_CODE_PATTERNS(language) ==
    IF language = lang_python THEN <<<<"*", "*", "/", "*", ".", "p", "y">>>>
    ELSE IF language = lang_javascript
        THEN <<<<"*", "*", "/", "*", ".", "j", "s">>,
               <<"*", "*", "/", "*", ".", "t", "s">>,
               <<"*", "*", "/", "*", ".", "j", "s", "x">>,
               <<"*", "*", "/", "*", ".", "t", "s", "x">>>>
    ELSE IF language = lang_php THEN <<<<"*", "*", "/", "*", ".", "p", "h", "p">>>>
    ELSE <<>>

\* GovernanceAgent._is_test_file: python "**/test_*.py", "**/*_test.py",
\* "**/tests/**/*.py"; javascript "**/*.test.js", "**/*.test.ts",
\* "**/*.spec.js", "**/*.spec.ts", "**/__tests__/**"; php "**/*Test.php",
\* "**/tests/**/*.php"
test_patterns(language) ==
    IF language = lang_python
        THEN <<<<"*", "*", "/", "t", "e", "s", "t", "_", "*", ".", "p", "y">>,
               <<"*", "*", "/", "*", "_", "t", "e", "s", "t", ".", "p", "y">>,
               <<"*", "*", "/", "t", "e", "s", "t", "s", "/", "*", "*", "/", "*", ".", "p", "y">>>>
    ELSE IF language = lang_javascript
        THEN <<<<"*", "*", "/", "*", ".", "t", "e", "s", "t", ".", "j", "s">>,
               <<"*", "*", "/", "*", ".", "t", "e", "s", "t", ".", "t", "s">>,
               <<"*", "*", "/", "*", ".", "s", "p", "e", "c", ".", "j", "s">>,
               <<"*", "*", "/", "*", ".", "s", "p", "e", "c", ".", "t", "s">>,
               <<"*", "*", "/", "_", "_", "t", "e", "s", "t", "s", "_", "_", "/", "*", "*">>>>
    ELSE IF language = lang_php
        THEN <<<<"*", "*", "/", "*", "T", "e", "s", "t", ".", "p", "h", "p">>,
               <<"*", "*", "/", "t", "e", "s", "t", "s", "/", "*", "*", "/", "*", ".", "p", "h", "p">>>>
    ELSE <<>>

\* patterns = test_patterns.get(language.lower(), [])
_is_test_file(file_path, language) ==
    _matches_patterns(file_path, test_patterns(lower(language)))

\* the dependency manifests of a language: python "requirements.txt",
\* "pyproject.toml", "setup.py"; javascript "package.json"; php "composer.json"
dep_manifest_files(language) ==
    IF language = lang_python
        THEN <<<<"r", "e", "q", "u", "i", "r", "e", "m", "e", "n", "t", "s", ".", "t", "x", "t">>,
               <<"p", "y", "p", "r", "o", "j", "e", "c", "t", ".", "t", "o", "m", "l">>,
               <<"s", "e", "t", "u", "p", ".", "p", "y">>>>
    ELSE IF language = lang_javascript THEN <<<<"p", "a", "c", "k", "a", "g", "e", ".", "j", "s", "o", "n">>>>
    ELSE IF language = lang_php THEN <<<<"c", "o", "m", "p", "o", "s", "e", "r", ".", "j", "s", "o", "n">>>>
    ELSE <<>>

(***************************************************************************)
(* GovernanceAgent: the unified-diff readers                               *)
(***************************************************************************)
\* "---", "+++", "@@", "/dev/null"
OLD_MARK == <<"-", "-", "-">>
NEW_MARK == <<"+", "+", "+">>
HUNK_MARK == <<"@", "@">>
DEV_NULL == <<"/", "d", "e", "v", "/", "n", "u", "l", "l">>

\* _extract_changed_files, one line of `for line in diff.split("\n")`: the
\* diff is held as the list of its lines
changed_file_of(line) ==
    lstrip(lstrip(strip(remove_all(remove_all(line, OLD_MARK), NEW_MARK)), {"a", "/"}),
           {"b", "/"})

RECURSIVE extract_changed_files_from(_, _)
extract_changed_files_from(lines, files) ==
    IF lines = <<>> THEN files
    ELSE LET line == Head(lines)
             file_path == changed_file_of(line)
         IN  IF /\ startswith(line, OLD_MARK) \/ startswith(line, NEW_MARK)
                /\ file_path # <<>>
                /\ file_path # DEV_NULL
                /\ ~InList(file_path, files)
             THEN extract_changed_files_from(Tail(lines), Append(files, file_path))
             ELSE extract_changed_files_from(Tail(lines), files)

_extract_changed_files(diff) == extract_changed_files_from(diff, <<>>)

\* OrchestratorAgent._extract_changed_files_from_diff: the same loop, used by
\* the bugfix workflow
_extract_changed_files_from_diff(diff) == extract_changed_files_from(diff, <<>>)

\* _extract_added_dependencies, the parse of one added line: <<dep>> or <<>>
parse_dependency(dep_line, language) ==
    IF language = lang_python
    THEN IF contains(dep_line, <<"=", "=">>) \/ contains(dep_line, <<">", "=">>) \/ contains(dep_line, <<">">>)
         THEN LET dep == strip(before(before(before(dep_line, <<"=", "=">>), <<">", "=">>), <<">">>))
              IN  IF dep # <<>> /\ ~startswith(dep, <<"#">>) THEN <<dep>> ELSE <<>>
         ELSE <<>>
    ELSE IF language \in {lang_javascript, lang_php}
    THEN IF contains(dep_line, <<"\"">>) /\ contains(dep_line, <<":">>)
         THEN LET dep == strip_chars(strip_chars(strip(before(dep_line, <<":">>)), {"\""}), {"'"})
              IN  IF dep # <<>> /\ ~startswith(dep, <<"/", "/">>) THEN <<dep>> ELSE <<>>
         ELSE <<>>
    ELSE <<>>

\* _extract_added_dependencies: the loop over the lines with its two flags
RECURSIVE added_dependencies_from(_, _, _, _, _, _)
added_dependencies_from(lines, file_path, language, in_file, in_added_section, deps) ==
    IF lines = <<>> THEN deps
    ELSE LET line == Head(lines)
             rest == Tail(lines)
         IN  IF startswith(line, NEW_MARK) /\ contains(line, file_path)
                 THEN added_dependencies_from(rest, file_path, language, TRUE, in_added_section, deps)
             ELSE IF ~in_file
                 THEN added_dependencies_from(rest, file_path, language, FALSE, in_added_section, deps)
             ELSE IF startswith(line, HUNK_MARK)
                 THEN added_dependencies_from(rest, file_path, language, TRUE, TRUE, deps)
             ELSE IF startswith(line, OLD_MARK) \/ startswith(line, NEW_MARK) THEN deps
             ELSE IF in_added_section /\ startswith(line, <<"+">>)
                 THEN added_dependencies_from(rest, file_path, language, TRUE, TRUE,
                          deps \o parse_dependency(strip(Tail(line)), language))
             ELSE added_dependencies_from(rest, file_path, language, TRUE, in_added_section, deps)

_extract_added_dependencies(diff, file_path, language) ==
    added_dependencies_from(diff, file_path, language, FALSE, FALSE, <<>>)

(***************************************************************************)
(* GovernanceAgent.evaluate                                                *)
(***************************************************************************)
\* GovernanceRuleViolation; file_path None is the empty sequence, and of the
\* message text the record keeps the file or dependency it names (none: <<>>)
GovernanceRuleViolation(rule_name, severity, named, file_path) ==
    [rule_name |-> rule_name, severity |-> severity, message |-> named,
     file_path |-> file_path]

\* project_config["language"] as projects spell it; the rules read it through
\* lower()
ConfigLanguages == {<<"p", "y", "t", "h", "o", "n">>, <<"J", "a", "v", "a", "S", "c", "r", "i", "p", "t">>}

\* Rule 1: one violation per changed file that matches a forbidden pattern
forbidden_path_violations(changed_files, forbidden_paths) ==
    LET forbidden(file_path) == _matches_patterns(file_path, forbidden_paths)
        hits == SelectSeq(changed_files, forbidden)
    IN  [i \in DOMAIN hits |-> GovernanceRuleViolation("forbidden_paths", "error", hits[i], hits[i])]

\* Rule 2: one warning when code files changed and no test file did
require_tests_violations(changed_files, require_tests, language) ==
    LET is_code(f) == _matches_patterns(f, REQUIRE_TESTS_FOR_CODE_PATTERNS(language))
        is_test(f) == _is_test_file(f, language)
        code_files == SelectSeq(changed_files, is_code)
        test_files == SelectSeq(changed_files, is_test)
    IN  IF require_tests /\ code_files # <<>> /\ test_files = <<>>
        THEN <<GovernanceRuleViolation("require_tests_for_code", "warning", <<>>, <<>>)>>
        ELSE <<>>

\* Rule 3 without the allow-list test: every added dependency is refused
dependency_violations_for_every_addition(diff, file_path, language, deps_list) ==
    LET added == _extract_added_dependencies(diff, file_path, language)
    IN  [i \in DOMAIN added |->
            GovernanceRuleViolation("allowed_dependencies", "error", added[i], file_path)]

\* Rule 3, for one manifest file: a violation per added dependency that
\* matches no allowed pattern
dependency_violations(diff, file_path, language, deps_list) ==
    LET refused(dep) == ~_matches_patterns(dep, deps_list)
        bad == SelectSeq(_extract_added_dependencies(diff, file_path, language), refused)
    IN  [i \in DOMAIN bad |->
            GovernanceRuleViolation("allowed_dependencies", "error", bad[i], file_path)]

RECURSIVE allowed_dependencies_from(_, _, _, _)
allowed_dependencies_from(files, diff, language, deps_list) ==
    IF files = <<>> THEN <<>>
    ELSE LET manifests == dep_manifest_files(language)
             is_manifest == \E i \in DOMAIN manifests : endswith(Head(files), manifests[i])
         IN  (IF is_manifest
                  THEN dependency_violations(diff, Head(files), language, deps_list)
                  ELSE <<>>)
             \o allowed_dependencies_from(Tail(files), diff, language, deps_list)

\* Rule 3: `if allowed_deps:` ... `if deps_list:`
allowed_dependencies_violations(changed_files, diff, language, allowed_deps) ==
    LET deps_list == IF language \in DOMAIN allowed_deps THEN allowed_deps[language] ELSE <<>>
    IN  IF deps_list = <<>> THEN <<>>
        ELSE allowed_dependencies_from(changed_files, diff, language, deps_list)

\* a verdict that takes any violation as blocking
ok_without_violations(violations) == violations = <<>>

\* ok = len([v for v in violations if v.severity == "error"]) == 0
evaluate_ok(violations) ==
    \A i \in DOMAIN violations : violations[i].severity # "error"

(***************************************************************************)
(* Diffs and project configurations handed to evaluate                     *)
(***************************************************************************)
\* files of a repository: "secrets/api.key", "config/secrets/id.pem",
\* "app/.env", "b/.env", "src/app.py", "tests/test_app.py",
\* "requirements.txt", "README.md"
secrets_api_key == <<"s", "e", "c", "r", "e", "t", "s", "/", "a", "p", "i", ".", "k", "e", "y">>
config_secrets_id_pem ==
    <<"c", "o", "n", "f", "i", "g", "/", "s", "e", "c", "r", "e", "t", "s", "/", "i", "d", ".", "p", "e", "m">>
app_env == <<"a", "p", "p", "/", ".", "e", "n", "v">>
b_env == <<"b", "/", ".", "e", "n", "v">>
src_app_py == <<"s", "r", "c", "/", "a", "p", "p", ".", "p", "y">>
tests_test_app_py ==
    <<"t", "e", "s", "t", "s", "/", "t", "e", "s", "t", "_", "a", "p", "p", ".", "p", "y">>
requirements_txt ==
    <<"r", "e", "q", "u", "i", "r", "e", "m", "e", "n", "t", "s", ".", "t", "x", "t">>
README_md == <<"R", "E", "A", "D", "M", "E", ".", "m", "d">>

\* files at the root of the repository: ".env", "app.py"
dot_env == <<".", "e", "n", "v">>
app_py == <<"a", "p", "p", ".", "p", "y">>

RepoFiles ==
    {secrets_api_key, config_secrets_id_pem, app_env, b_env, src_app_py,
     tests_test_app_py, requirements_txt, README_md, dot_env, app_py}

\* changed lines of a hunk: "-x = 0", "+x = 1", "+requests==2.31", "+leftpad>=1.0"
removed_line == <<"-", "x", " ", "=", " ", "0">>
added_line == <<"+", "x", " ", "=", " ", "1">>
added_requests == <<"+", "r", "e", "q", "u", "e", "s", "t", "s", "=", "=", "2", ".", "3", "1">>
added_leftpad == <<"+", "l", "e", "f", "t", "p", "a", "d", ">", "=", "1", ".", "0">>

\* lines of a requirements.txt hunk: "+requests==2.0", "+fastapi==1.0",
\* "-requests==2.0" (removed), " requests==2.0" (context)
added_requests_2_0 == <<"+", "r", "e", "q", "u", "e", "s", "t", "s", "=", "=", "2", ".", "0">>
added_fastapi == <<"+", "f", "a", "s", "t", "a", "p", "i", "=", "=", "1", ".", "0">>
removed_requests == <<"-", "r", "e", "q", "u", "e", "s", "t", "s", "=", "=", "2", ".", "0">>
context_requests == <<" ", "r", "e", "q", "u", "e", "s", "t", "s", "=", "=", "2", ".", "0">>

\* one file section of a unified diff: a modified file, an added one whose
\* old-file header is /dev/null, or a deleted one whose new-file header is
FileSections ==
    [kind : {"modified"}, path : RepoFiles, body : {<<removed_line, added_line>>}]
    \cup [kind : {"added"}, path : {src_app_py}, body : {<<added_line>>}]
    \cup [kind : {"deleted"}, path : {README_md}, body : {<<removed_line>>}]

\* sections that change the dependencies listed in requirements.txt
ManifestSections ==
    [kind : {"modified"}, path : {requirements_txt},
     body : {<<added_requests>>, <<added_requests, added_leftpad>>,
             <<added_requests_2_0>>, <<added_fastapi>>,
             <<removed_requests, context_requests>>,
             <<removed_requests, context_requests, added_fastapi>>}]

DiffSections == FileSections \cup ManifestSections

\* the lines `git diff` prints for a section: "diff --git a/p b/p",
\* "--- a/p" (or "--- /dev/null"), "+++ b/p" (or "+++ /dev/null"),
\* "@@ -1 +1 @@", the changed lines
section_lines(sec) ==
    <<<<"d", "i", "f", "f", " ", "-", "-", "g", "i", "t", " ", "a", "/">> \o sec.path \o <<" ", "b", "/">> \o sec.path,
      IF sec.kind = "added" THEN <<"-", "-", "-", " ", "/", "d", "e", "v", "/", "n", "u", "l", "l">>
      ELSE <<"-", "-", "-", " ", "a", "/">> \o sec.path,
      IF sec.kind = "deleted" THEN <<"+", "+", "+", " ", "/", "d", "e", "v", "/", "n", "u", "l", "l">>
      ELSE <<"+", "+", "+", " ", "b", "/">> \o sec.path,
      <<"@", "@", " ", "-", "1", " ", "+", "1", " ", "@", "@">>>>
    \o sec.body

RECURSIVE diff_lines(_)
diff_lines(sections) ==
    IF sections = <<>> THEN <<>>
    ELSE section_lines(Head(sections)) \o diff_lines(Tail(sections))

\* file sections in one diff
MaxDiffFiles == 2

\* git diff prints one section per file
OneSectionPerFile(sections) ==
    \A i, j \in DOMAIN sections : sections[i].path = sections[j].path => i = j

\* up to MaxDiffFiles file sections, or a manifest section alone, before or
\* after one file section
Diffs ==
    {d \in UNION {[1..n -> FileSections] : n \in 1..MaxDiffFiles}
              \cup {<<m>> : m \in ManifestSections}
              \cup {<<f, m>> : f \in FileSections, m \in ManifestSections}
              \cup {<<m, f>> : m \in ManifestSections, f \in FileSections} :
        OneSectionPerFile(d)}

\* the files a diff changes
ChangedByDiff(sections) == {sections[i].path : i \in DOMAIN sections}

\* governance.forbidden_paths of a project: "*.md", "README*"
CustomForbiddenPaths == <<<<"*", ".", "m", "d">>, <<"R", "E", "A", "D", "M", "E", "*">>>>

\* governance.allowed_dependencies of a project: python: "requests", "fastapi*"
CustomAllowedDependencies ==
    (lang_python :> <<<<"r", "e", "q", "u", "e", "s", "t", "s">>,
                     <<"f", "a", "s", "t", "a", "p", "i", "*">>>>)

\* governance.allowed_dependencies of a project: python: "fastapi"
FastapiOnly == (lang_python :> <<<<"f", "a", "s", "t", "a", "p", "i">>>>)

\* project_config: the language and the governance section (has_forbidden_paths
\* tells whether the key is set; allowed_dependencies {} is the empty function)
ProjectConfigs ==
    [language : ConfigLanguages,
     has_forbidden_paths : BOOLEAN,
     forbidden_paths : {CustomForbiddenPaths},
     require_tests_for_code : BOOLEAN,
     allowed_dependencies : {<<>>}]
    \cup
    [language : ConfigLanguages,
     has_forbidden_paths : {FALSE},
     forbidden_paths : {CustomForbiddenPaths},
     require_tests_for_code : BOOLEAN,
     allowed_dependencies : {CustomAllowedDependencies, FastapiOnly}]

\* governance_config.get("forbidden_paths", FORBIDDEN_PATHS_DEFAULT)
forbidden_paths_of(config) ==
    IF config.has_forbidden_paths THEN config.forbidden_paths ELSE FORBIDDEN_PATHS_DEFAULT

(***************************************************************************)
(* evaluate, step by step                                                  *)
(***************************************************************************)
\* changed_files = self._extract_changed_files(diff)
Evaluate_ExtractChangedFiles ==
    /\ gov.pc = "extract"
    /\ gov' = [gov EXCEPT !.pc = "forbidden_paths",
                          !.changed_files = _extract_changed_files(gov.diff)]
    /\ UNCHANGED <<wfVars, rs_in, rs_out, product, repo_client, repositories, threads>>

\* Rule 1: Check forbidden paths
Evaluate_ForbiddenPaths ==
    /\ gov.pc = "forbidden_paths"
    /\ gov' = [gov EXCEPT !.pc = "require_tests",
                          !.violations = @ \o forbidden_path_violations(
                              gov.changed_files, forbidden_paths_of(gov.config))]
    /\ UNCHANGED <<wfVars, rs_in, rs_out, product, repo_client, repositories, threads>>

\* Rule 2: Require tests for code changes
Evaluate_RequireTests ==
    /\ gov.pc = "require_tests"
    /\ gov' = [gov EXCEPT !.pc = "allowed_dependencies",
                          !.violations = @ \o require_tests_violations(
                              gov.changed_files, gov.config.require_tests_for_code,
                              lower(gov.config.language))]
    /\ UNCHANGED <<wfVars, rs_in, rs_out, product, repo_client, repositories, threads>>

\* Rule 3: Check allowed dependencies (if configured)
Evaluate_AllowedDependencies ==
    /\ gov.pc = "allowed_dependencies"
    /\ gov' = [gov EXCEPT !.pc = "verdict",
                          !.violations = @ \o allowed_dependencies_violations(
                              gov.changed_files, gov.diff, lower(gov.config.language),
                              gov.config.allowed_dependencies)]
    /\ UNCHANGED <<wfVars, rs_in, rs_out, product, repo_client, repositories, threads>>

\* ok = ...; return GovernanceResult(ok=ok, violations=violations, ...)
Evaluate_Return ==
    /\ gov.pc = "verdict"
    /\ gov' = [gov EXCEPT !.pc = "done", !.ok = PyBool(evaluate_ok(gov.violations))]
    /\ UNCHANGED <<wfVars, rs_in, rs_out, product, repo_client, repositories, threads>>

(***************************************************************************)
(* Specification of the governance agent alone: every diff and project     *)
(* configuration is an initial state and the actions run evaluate on it.   *)
(***************************************************************************)
InitGovernance ==
    /\ pc = "idle"
    /\ req = NoRequest
    /\ status = "none"
    /\ message = ""
    /\ details = EmptyDetails
    /\ governance_result = "None"
    /\ calls = <<>>
    /\ invocations = 0
    /\ rs_in = NoResolverInput
    /\ rs_out = "none"
    /\ \E sections \in Diffs, config \in ProjectConfigs :
          gov = [pc |-> "extract", sections |-> sections, diff |-> diff_lines(sections),
                 config |-> config, changed_files |-> <<>>, violations |-> <<>>,
                 ok |-> "none"]
    /\ product = NoProductCall
    /\ repo_client = NoRepoClient
    /\ repositories = NoRepositories
    /\ threads = NoThreads

NextGovernance ==
    \/ Evaluate_ExtractChangedFiles
    \/ Evaluate_ForbiddenPaths
    \/ Evaluate_RequireTests
    \/ Evaluate_AllowedDependencies
    \/ Evaluate_Return

SpecGovernance == InitGovernance /\ [][NextGovernance]_vars

(***************************************************************************)
(* ProductAgent (agents/product/product_agent.py): construction and one    *)
(* call of a public method that generates text or writes a contract, one   *)
(* action per check of the method.                                         *)
(***************************************************************************)
\* the public methods that use the text-generation client or write a contract
ProductMethods ==
    {"create_feature_contract_from_idea", "create_feature_contract",
     "clarify_requirements"}

\* how LLMClient(provider=llm_provider) ends in the environment of the agent
LlmProviderOutcomes == {"ok", "ValueError", "ImportError"}

\* the questionnaire of the project as _flatten_questionnaire_intent gives it:
\* locked or not, confidence below min_confidence_required or not; "raises"
\* when ensure_project_questionnaire fails
Questionnaires ==
    {"unlocked", "locked", "low_confidence", "locked_low_confidence", "raises"}

intent_locked(questionnaire) == questionnaire \in {"locked", "locked_low_confidence"}

confidence_below_threshold(questionnaire) ==
    questionnaire \in {"low_confidence", "locked_low_confidence"}

\* the method is left by an exception
ProductRaise(e) == product' = [product EXCEPT !.pc = "done", !.raised = e]

ProductGoto(label) == product' = [product EXCEPT !.pc = label]

\* ProductAgent.__init__: `if llm_client:` ... `else: try: LLMClient(...)`
\* `except (ValueError, ImportError): self.llm_client = None`; the method of
\* the call is entered next
Product_Init ==
    /\ product.pc = "init"
    /\ product' = [product EXCEPT
          !.pc = IF product.method = "create_feature_contract" THEN "contract_get_repo_path"
                 ELSE IF product.method = "clarify_requirements" THEN "clarify_check_llm_client"
                 ELSE "check_llm_client",
          !.llm_client = IF product.llm_client_arg = "client" THEN "client"
                         ELSE IF product.llm_provider = "ok" THEN "client"
                         ELSE "None"]
    /\ UNCHANGED <<wfVars, rs_in, rs_out, gov, repo_client, repositories, threads>>

\* `if not self.llm_client: raise ValueError("LLM client not available. ...")`
Product_CheckLlmClient ==
    /\ product.pc = "check_llm_client"
    /\ IF product.llm_client = "None"
           THEN ProductRaise("ValueError: LLM client not available")
           ELSE ProductGoto("get_repo_path")
    /\ UNCHANGED <<wfVars, rs_in, rs_out, gov, repo_client, repositories, threads>>

\* repo_path = get_repo_path(project_id); `if not repo_path: raise ValueError`
Product_GetRepoPath ==
    /\ product.pc = "get_repo_path"
    /\ IF product.repo_path = "None"
           THEN ProductRaise("ValueError: not found")
           ELSE ProductGoto("ensure_questionnaire")
    /\ UNCHANGED <<wfVars, rs_in, rs_out, gov, repo_client, repositories, threads>>

\* questionnaire = self.ensure_project_questionnaire(project_id);
\* intent_flat = self.config_loader._flatten_questionnaire_intent(questionnaire)
Product_EnsureQuestionnaire ==
    /\ product.pc = "ensure_questionnaire"
    /\ IF product.questionnaire = "raises"
           THEN ProductRaise("Exception")
           ELSE ProductGoto("check_locked")
    /\ UNCHANGED <<wfVars, rs_in, rs_out, gov, repo_client, repositories, threads>>

\* `if intent_flat.get("locked", False): raise ValueError("... intent is locked. ...")`
Product_CheckLocked ==
    /\ product.pc = "check_locked"
    /\ IF intent_locked(product.questionnaire)
           THEN ProductRaise("ValueError: intent is locked")
           ELSE ProductGoto("check_confidence")
    /\ UNCHANGED <<wfVars, rs_in, rs_out, gov, repo_client, repositories, threads>>

\* `if confidence < min_confidence: raise ValueError`
Product_CheckConfidence ==
    /\ product.pc = "check_confidence"
    /\ IF confidence_below_threshold(product.questionnaire)
           THEN ProductRaise("ValueError: confidence below threshold")
           ELSE ProductGoto("load_project_config")
    /\ UNCHANGED <<wfVars, rs_in, rs_out, gov, repo_client, repositories, threads>>

\* try: load_project_config except FileNotFoundError: project_config = {}
Product_LoadConfig ==
    /\ product.pc = "load_project_config"
    /\ \E outcome \in ConfigOutcomes :
          IF outcome = "RuntimeError" THEN ProductRaise("Exception")
          ELSE ProductGoto("generate")
    /\ UNCHANGED <<wfVars, rs_in, rs_out, gov, repo_client, repositories, threads>>

\* design_content = self.llm_client.generate(...)
Product_Generate ==
    /\ product.pc = "generate"
    /\ \E outcome \in {"ok", "raises"} :
          product' = [product EXCEPT
              !.generate_calls = @ + 1,
              !.pc = IF outcome = "ok" THEN "write_file" ELSE "done",
              !.raised = IF outcome = "ok" THEN "none" ELSE "Exception"]
    /\ UNCHANGED <<wfVars, rs_in, rs_out, gov, repo_client, repositories, threads>>

\* self.repo_client.set_repo_path(repo_path); self.repo_client.write_file(...);
\* return {"project_id": ..., "contract_path": ...}
Product_WriteContract ==
    /\ product.pc = "write_file"
    /\ \E outcome \in {"ok", "raises"} :
          product' = [product EXCEPT
              !.pc = "done",
              !.written = (outcome = "ok"),
              !.raised = IF outcome = "ok" THEN "none" ELSE "Exception"]
    /\ UNCHANGED <<wfVars, rs_in, rs_out, gov, repo_client, repositories, threads>>

\* create_feature_contract: repo_path = get_repo_path(project_id);
\* `if not repo_path: raise ValueError`
Contract_GetRepoPath ==
    /\ product.pc = "contract_get_repo_path"
    /\ IF product.repo_path = "None"
           THEN ProductRaise("ValueError: not found")
           ELSE ProductGoto("contract_write_file")
    /\ UNCHANGED <<wfVars, rs_in, rs_out, gov, repo_client, repositories, threads>>

\* create_feature_contract: self.repo_client.set_repo_path(repo_path);
\* self.repo_client.write_file(file_path, markdown_content); no check of the
\* text-generation client or of the questionnaire comes before
Contract_WriteFile ==
    /\ product.pc = "contract_write_file"
    /\ \E outcome \in {"ok", "raises"} :
          product' = [product EXCEPT
              !.pc = "done",
              !.written = (outcome = "ok"),
              !.raised = IF outcome = "ok" THEN "none" ELSE "Exception"]
    /\ UNCHANGED <<wfVars, rs_in, rs_out, gov, repo_client, repositories, threads>>

\* clarify_requirements: `if not self.llm_client: raise ValueError(...)`
Clarify_CheckLlmClient ==
    /\ product.pc = "clarify_check_llm_client"
    /\ IF product.llm_client = "None"
           THEN ProductRaise("ValueError: LLM client not available for requirement clarification")
           ELSE ProductGoto("clarify_generate")
    /\ UNCHANGED <<wfVars, rs_in, rs_out, gov, repo_client, repositories, threads>>

\* clarify_requirements: questions = self.llm_client.generate(...); return
Clarify_Generate ==
    /\ product.pc = "clarify_generate"
    /\ \E outcome \in {"ok", "raises"} :
          product' = [product EXCEPT
              !.generate_calls = @ + 1,
              !.pc = "done",
              !.raised = IF outcome = "ok" THEN "none" ELSE "Exception"]
    /\ UNCHANGED <<wfVars, rs_in, rs_out, gov, repo_client, repositories, threads>>

(***************************************************************************)
(* Specification of the product agent alone: every constructor argument,   *)
(* environment, project and method is an initial state.                    *)
(***************************************************************************)
InitProduct ==
    /\ pc = "idle"
    /\ req = NoRequest
    /\ status = "none"
    /\ message = ""
    /\ details = EmptyDetails
    /\ governance_result = "None"
    /\ calls = <<>>
    /\ invocations = 0
    /\ rs_in = NoResolverInput
    /\ rs_out = "none"
    /\ gov = NoEvaluation
    /\ \E method \in ProductMethods, llm_client_arg \in {"client", "None"},
          llm_provider \in LlmProviderOutcomes,
          repo_path \in {"None", "/fake/path"}, questionnaire \in Questionnaires :
          product = [pc |-> "init", method |-> method, llm_client_arg |-> llm_client_arg,
                     llm_provider |-> llm_provider, repo_path |-> repo_path,
                     questionnaire |-> questionnaire, llm_client |-> "unset",
                     raised |-> "none", generate_calls |-> 0, written |-> FALSE]
    /\ repo_client = NoRepoClient
    /\ repositories = NoRepositories
    /\ threads = NoThreads

NextProduct ==
    \/ Product_Init
    \/ Product_CheckLlmClient
    \/ Product_GetRepoPath
    \/ Product_EnsureQuestionnaire
    \/ Product_CheckLocked
    \/ Product_CheckConfidence
    \/ Product_LoadConfig
    \/ Product_Generate
    \/ Product_WriteContract
    \/ Contract_GetRepoPath
    \/ Contract_WriteFile
    \/ Clarify_CheckLlmClient
    \/ Clarify_Generate

SpecProduct == InitProduct /\ [][NextProduct]_vars

(***************************************************************************)
(* Workflow invocations for different projects running at the same time on *)
(* one OrchestratorAgent (main_service/api.py keeps one at module level    *)
(* and its synchronous route handler runs in a thread pool). The           *)
(* invocations share self.repo_client; each is cut at every read and write *)
(* of the client's _repo, so that one call of the client is as many steps  *)
(* as it reads _repo. Of RepoClient only _repo is followed: the operations *)
(* below never read repo_path.                                             *)
(***************************************************************************)
\* the projects of the invocations, one invocation each
Projects == {"alpha", "beta"}

\* `branch = branch_name or f"feature/{feature_slug}"`, feature_slug or
\* "feature": the default name and one a caller gives
BranchNames == {"feature/feature", "feature/login"}

\* the git repositories of the projects: the branches besides the default
\* branch, which earlier runs may have left, and the branch checked out
Repositories == [Projects -> [heads : SUBSET BranchNames, active : {"main"}]]

\* an invocation of run_feature_workflow past the project and contract checks,
\* with the branch it commits to, or of run_bugfix_workflow past the project
\* checks: ops is the operations it made on a repository, each with the
\* repository it acted on
StartedThreads ==
    [workflow : {"feature"}, branch : BranchNames, pc : {"set_repo_path"},
     ops : {<<>>}, raised : {"none"}]
    \cup
    [workflow : {"bugfix"}, branch : {"none"}, pc : {"set_repo_path"},
     ops : {<<>>}, raised : {"none"}]

\* RepoClient.set_repo_path: self.repo_path = repo_path; self._repo = Repo(repo_path)
set_repo_path(repo_path) == [repo_client EXCEPT !._repo = repo_path]

\* invocation p made operation op on the repository self._repo names
Operated(p, op) == [threads[p] EXCEPT !.ops = Append(@, [op |-> op, repo |-> repo_client._repo])]

\* self.repo_client.set_repo_path(repo_path) of run_feature_workflow (l.84) and
\* of run_bugfix_workflow (l.478)
Concurrent_SetRepoPath ==
    \E p \in DOMAIN threads :
        /\ threads[p].pc = "set_repo_path"
        /\ repo_client' = set_repo_path(p)
        /\ threads' = [threads EXCEPT
              ![p].pc = IF threads[p].workflow = "feature" THEN "f_codegen" ELSE "b_get_diff"]
        /\ UNCHANGED <<wfVars, rs_in, rs_out, gov, product, repositories>>

\* run_bugfix_workflow 3, 4: the tests, then, when they failed and run_bugfix
\* is set, diff = self.repo_client.get_diff()
Concurrent_BugfixGetDiff ==
    \E p \in DOMAIN threads :
        /\ threads[p].pc = "b_get_diff"
        /\ \E run_tests \in BOOLEAN, run_bugfix \in BOOLEAN, test_status \in {"passed", "failed"} :
              threads' = [threads EXCEPT ![p] =
                  [(IF run_tests /\ test_status = "failed" /\ run_bugfix
                        THEN Operated(p, "get_diff") ELSE threads[p])
                   EXCEPT !.pc = "done"]]
        /\ UNCHANGED <<repo_client, repositories>>
        /\ UNCHANGED <<wfVars, rs_in, rs_out, gov, product>>

\* 5. `if run_codegen:` self.repo_client.set_repo_path(repo_path), generate_artifacts
Concurrent_Codegen ==
    \E p \in DOMAIN threads :
        /\ threads[p].pc = "f_codegen"
        /\ \E run_codegen \in BOOLEAN :
              repo_client' = IF run_codegen THEN set_repo_path(p) ELSE repo_client
        /\ threads' = [threads EXCEPT ![p].pc = "f_governance"]
        /\ UNCHANGED <<wfVars, rs_in, rs_out, gov, product, repositories>>

\* 7. `if create_pr:` diff = self.repo_client.get_diff(); without create_pr
\* no further repository operation is made
Concurrent_GetDiff ==
    \E p \in DOMAIN threads :
        /\ threads[p].pc = "f_governance"
        /\ \E create_pr \in BOOLEAN :
              threads' = [threads EXCEPT ![p] =
                  IF create_pr THEN [Operated(p, "get_diff") EXCEPT !.pc = "pr_set_repo_path"]
                  ELSE [threads[p] EXCEPT !.pc = "done"]]
        /\ UNCHANGED <<repo_client, repositories>>
        /\ UNCHANGED <<wfVars, rs_in, rs_out, gov, product>>

\* _create_pr: self.repo_client.set_repo_path(repo_path)
Concurrent_CreatePrSetRepoPath ==
    \E p \in DOMAIN threads :
        /\ threads[p].pc = "pr_set_repo_path"
        /\ repo_client' = set_repo_path(p)
        /\ threads' = [threads EXCEPT ![p].pc = "create_branch_heads"]
        /\ UNCHANGED <<wfVars, rs_in, rs_out, gov, product, repositories>>

\* create_branch: `if branch_name in [ref.name for ref in self._repo.heads]:
\* return False`, and _create_pr goes on to checkout_branch
Concurrent_CreateBranchHeads ==
    \E p \in DOMAIN threads :
        /\ threads[p].pc = "create_branch_heads"
        /\ threads' = [threads EXCEPT ![p] =
              [Operated(p, "heads") EXCEPT
                  !.pc = IF threads[p].branch \in repositories[repo_client._repo].heads
                             THEN "checkout_branch_heads" ELSE "create_head"]]
        /\ UNCHANGED <<repo_client, repositories>>
        /\ UNCHANGED <<wfVars, rs_in, rs_out, gov, product>>

\* create_branch: self._repo.create_head(branch_name); in a repository that
\* holds the branch git refuses (OSError) unless the branch is at HEAD
Concurrent_CreateHead ==
    \E p \in DOMAIN threads :
        /\ threads[p].pc = "create_head"
        /\ \E refused \in {b \in BOOLEAN :
                              b => threads[p].branch \in repositories[repo_client._repo].heads} :
              IF refused
              THEN /\ threads' = [threads EXCEPT ![p].pc = "done", ![p].raised = "OSError"]
                   /\ UNCHANGED repositories
              ELSE /\ threads' = [threads EXCEPT ![p] =
                          [Operated(p, "create_head") EXCEPT !.pc = "create_branch_checkout"]]
                   /\ repositories' = [repositories EXCEPT
                          ![repo_client._repo].heads = @ \cup {threads[p].branch}]
        /\ UNCHANGED repo_client
        /\ UNCHANGED <<wfVars, rs_in, rs_out, gov, product>>

\* self._repo.heads[branch_name].checkout() of create_branch (l.114) and of
\* checkout_branch (l.132): IndexError where the repository has no such branch
Concurrent_Checkout ==
    \E p \in DOMAIN threads :
        /\ threads[p].pc \in {"create_branch_checkout", "checkout_branch_checkout"}
        /\ IF threads[p].branch \in repositories[repo_client._repo].heads
           THEN /\ threads' = [threads EXCEPT ![p] =
                       [Operated(p, "checkout") EXCEPT !.pc = "index_add"]]
                /\ repositories' = [repositories EXCEPT
                       ![repo_client._repo].active = threads[p].branch]
           ELSE /\ threads' = [threads EXCEPT ![p].pc = "done", ![p].raised = "IndexError"]
                /\ UNCHANGED repositories
        /\ UNCHANGED repo_client
        /\ UNCHANGED <<wfVars, rs_in, rs_out, gov, product>>

\* checkout_branch: `if branch_name not in [ref.name for ref in
\* self._repo.heads]: return False`, and _create_pr goes on to commit_changes
Concurrent_CheckoutBranchHeads ==
    \E p \in DOMAIN threads :
        /\ threads[p].pc = "checkout_branch_heads"
        /\ threads' = [threads EXCEPT ![p] =
              [Operated(p, "heads") EXCEPT
                  !.pc = IF threads[p].branch \in repositories[repo_client._repo].heads
                             THEN "checkout_branch_checkout" ELSE "index_add"]]
        /\ UNCHANGED <<repo_client, repositories>>
        /\ UNCHANGED <<wfVars, rs_in, rs_out, gov, product>>

\* commit_changes: self._repo.index.add(["*"])
Concurrent_IndexAdd ==
    \E p \in DOMAIN threads :
        /\ threads[p].pc = "index_add"
        /\ threads' = [threads EXCEPT ![p] = [Operated(p, "index.add") EXCEPT !.pc = "index_commit"]]
        /\ UNCHANGED <<repo_client, repositories>>
        /\ UNCHANGED <<wfVars, rs_in, rs_out, gov, product>>

\* commit_changes: commit = self._repo.index.commit(message); then
\* `if push_branch and repo_full_name:` push_branch, else the pull request
\* stub, which reads no repository
Concurrent_IndexCommit ==
    \E p \in DOMAIN threads :
        /\ threads[p].pc = "index_commit"
        /\ \E push_branch \in BOOLEAN :
              threads' = [threads EXCEPT ![p] =
                  [Operated(p, "index.commit") EXCEPT
                      !.pc = IF push_branch THEN "push_branch" ELSE "done"]]
        /\ UNCHANGED <<repo_client, repositories>>
        /\ UNCHANGED <<wfVars, rs_in, rs_out, gov, product>>

\* push_branch: remote = self._repo.remote(remote_name); remote.push(branch_name);
\* create_pull_request that follows reads no repository
Concurrent_PushBranch ==
    \E p \in DOMAIN threads :
        /\ threads[p].pc = "push_branch"
        /\ threads' = [threads EXCEPT ![p] = [Operated(p, "push") EXCEPT !.pc = "done"]]
        /\ UNCHANGED <<repo_client, repositories>>
        /\ UNCHANGED <<wfVars, rs_in, rs_out, gov, product>>

InitConcurrent ==
    /\ pc = "idle"
    /\ req = NoRequest
    /\ status = "none"
    /\ message = ""
    /\ details = EmptyDetails
    /\ governance_result = "None"
    /\ calls = <<>>
    /\ invocations = 0
    /\ rs_in = NoResolverInput
    /\ rs_out = "none"
    /\ gov = NoEvaluation
    /\ product = NoProductCall
    /\ repo_client = NoRepoClient
    /\ repositories \in Repositories
    /\ threads \in [Projects -> StartedThreads]

NextConcurrent ==
    \/ Concurrent_SetRepoPath
    \/ Concurrent_BugfixGetDiff
    \/ Concurrent_Codegen
    \/ Concurrent_GetDiff
    \/ Concurrent_CreatePrSetRepoPath
    \/ Concurrent_CreateBranchHeads
    \/ Concurrent_CreateHead
    \/ Concurrent_Checkout
    \/ Concurrent_CheckoutBranchHeads
    \/ Concurrent_IndexAdd
    \/ Concurrent_IndexCommit
    \/ Concurrent_PushBranch

SpecConcurrent == InitConcurrent /\ [][NextConcurrent]_vars

(***************************************************************************)
(* Reading the call log                                                    *)
(***************************************************************************)
Called(c) == \E i \in DOMAIN calls : calls[i].call = c

Logged(c, o) == \E i \in DOMAIN calls : calls[i] = Call(c, o)

\* how call c ended in this invocation, "absent" when it was not made
OutcomeOf(c) ==
    IF Called(c) THEN (CHOOSE e \in {calls[i] : i \in DOMAIN calls} : e.call = c).outcome
    ELSE "absent"

\* the optional steps of a workflow
OptionalCalls ==
    {"generate_artifacts", "_run_tests", "_run_bugfix", "get_diff", "evaluate",
     "_create_pr", "_run_smoke"}

NoOptionalStepRan == \A i \in DOMAIN calls : calls[i].call \notin OptionalCalls

NoStatusFields ==
    /\ details.workflow_status = "absent"
    /\ details.tests_passed = "absent"
    /\ details.smoke_passed = "absent"
    /\ details.governance_ok = "absent"

\* config loaded, repository resolved and opened
ProjectAvailable ==
    /\ Logged("load_project_config", "ok")
    /\ Called("get_repo_path") /\ ~Logged("get_repo_path", "None")
    /\ Logged("set_repo_path", "ok")

\* step 5 raised: in opening the repository or in the codegen agent
CodegenRaised ==
    \/ Logged("generate_artifacts", "raises")
    \/ Called("contract_exists") /\ Logged("set_repo_path", "raises")

(***************************************************************************)
(* Claims                                                                  *)
(***************************************************************************)
\* C1: _compute_workflow_status returns failed_tests if run_tests and
\* tests_passed is False; otherwise failed_smoke if run_smoke and smoke_passed
\* is False; otherwise failed_governance if create_pr and governance_ok is
\* False; otherwise success, for every combination of the six arguments.
C1_ResolverPrecedence ==
    rs_out # "none" =>
        LET t == rs_in.run_tests /\ rs_in.tests_passed = "False"
            k == rs_in.run_smoke /\ rs_in.smoke_passed = "False"
            g == rs_in.create_pr /\ rs_in.governance_ok = "False"
        IN  /\ t => rs_out = FAILED_TESTS
            /\ (~t /\ k) => rs_out = FAILED_SMOKE
            /\ (~t /\ ~k /\ g) => rs_out = FAILED_GOVERNANCE
            /\ (~t /\ ~k /\ ~g) => rs_out = SUCCESS

\* C1 witness: smoke and governance both failed with tests clean, and the
\* resolver answered failed_smoke.
C1_Witness ==
    /\ rs_out = FAILED_SMOKE
    /\ rs_in.run_tests /\ rs_in.tests_passed = "True"
    /\ rs_in.run_smoke /\ rs_in.smoke_passed = "False"
    /\ rs_in.create_pr /\ rs_in.governance_ok = "False"

\* C2: the result of _compute_workflow_status does not depend on the passed
\* value of a step whose ran flag is false, and with all three flags false the
\* result is success whatever the passed values.
C2_NotRanNeverCounts ==
    rs_out # "none" =>
        /\ ~rs_in.run_tests =>
              \A v \in OptBool : Resolve([rs_in EXCEPT !.tests_passed = v]) = rs_out
        /\ ~rs_in.run_smoke =>
              \A v \in OptBool : Resolve([rs_in EXCEPT !.smoke_passed = v]) = rs_out
        /\ ~rs_in.create_pr =>
              \A v \in OptBool : Resolve([rs_in EXCEPT !.governance_ok = v]) = rs_out
        /\ (~rs_in.run_tests /\ ~rs_in.run_smoke /\ ~rs_in.create_pr) => rs_out = SUCCESS

\* C2 witness: no step ran, every passed value is False, the result is success.
C2_Witness ==
    /\ rs_out = SUCCESS
    /\ ~rs_in.run_tests /\ ~rs_in.run_smoke /\ ~rs_in.create_pr
    /\ rs_in.tests_passed = "False"
    /\ rs_in.smoke_passed = "False"
    /\ rs_in.governance_ok = "False"

\* C3: in both workflows the remediation step (_run_bugfix) is invoked if and
\* only if the test step ran in this invocation, its status is exactly
\* `failed`, and run_bugfix was requested.
C3_RemediationGating ==
    /\ Called("_run_bugfix") =>
          /\ Called("_run_tests")
          /\ OutcomeOf("_run_tests") = "failed"
          /\ req.run_bugfix
    /\ (/\ Called("_run_tests")
        /\ OutcomeOf("_run_tests") = "failed"
        /\ req.run_bugfix
        /\ pc \notin {"f_bugfix", "b_bugfix"}) => Called("_run_bugfix")

\* C3 witness: a bugfix workflow that ran the remediation step and returned.
C3_Witness ==
    /\ pc = "done"
    /\ req.kind = "bugfix"
    /\ Called("_run_bugfix")
    /\ status = "accepted"

\* C4: whatever the collaborators do, both workflow methods return a status in
\* {accepted, rejected, error}; no exception propagates to the caller.
C4_NoExceptionEscapes ==
    pc = "done" => status \in {"accepted", "rejected", "error"}

\* C5: in a non-dry-run feature workflow with run_codegen requested, if the
\* codegen call raises, the workflow returns outer status `error`, nothing is
\* executed afterwards and the result carries no workflow_status.
C5_CodegenFailureIsFatal ==
    CodegenRaised =>
        /\ pc = "done"
        /\ status = "error"
        /\ calls[Len(calls)] \in {Call("generate_artifacts", "raises"),
                                  Call("set_repo_path", "raises")}
        /\ \A c \in {"_run_tests", "_run_bugfix", "get_diff", "evaluate", "_create_pr",
                     "_run_smoke", "_compute_workflow_status"} : ~Called(c)
        /\ NoStatusFields

\* C5 witness: codegen raised in a run that asked for every later step.
C5_Witness ==
    /\ Logged("generate_artifacts", "raises")
    /\ req.kind = "feature" /\ ~req.dry_run /\ req.run_codegen
    /\ req.run_tests /\ req.create_pr /\ req.run_smoke

\* C6: in a non-dry-run feature workflow a test step ending failed or error,
\* or a smoke step ending failed or timeout, never aborts the workflow: every
\* later requested step is attempted, status resolution runs and the workflow
\* returns `accepted` with a workflow_status.
C6_StepFailureNeverAborts ==
    (/\ pc = "done"
     /\ req.kind = "feature"
     /\ \/ OutcomeOf("_run_tests") \in {"failed", "error"}
        \/ OutcomeOf("_run_smoke") \in {"failed", "timeout"}) =>
        /\ req.create_pr => Called("get_diff") /\ Called("_create_pr")
        /\ req.run_smoke => Called("_run_smoke")
        /\ Called("_compute_workflow_status")
        /\ status = "accepted"
        /\ details.workflow_status \in WorkflowStatus

\* C7: policy evaluation is attempted only when create_pr is requested and
\* always before change-request creation; change-request creation is attempted
\* whenever create_pr is requested in a non-dry-run feature workflow that got
\* past codegen, whether the verdict is ok, failing, or the diff retrieval or
\* evaluation raised (recorded under the governance detail, no abort).
C7_PolicyNeverGatesChangeRequest ==
    /\ Called("evaluate") => req.kind = "feature" /\ req.create_pr
    /\ (req.kind = "feature" /\ Called("get_diff")) => req.create_pr
    /\ \A i, j \in DOMAIN calls :
          (calls[i].call = "_create_pr" /\ calls[j].call \in {"get_diff", "evaluate"})
              => j < i
    /\ Called("_create_pr") => req.kind = "feature" /\ Called("get_diff")
    /\ (/\ req.kind = "feature"
        /\ req.create_pr
        /\ pc \in {"f_create_pr", "f_smoke", "f_status"}) => Called("get_diff")
    /\ (/\ req.kind = "feature"
        /\ req.create_pr
        /\ pc = "f_create_pr"
        /\ (Logged("get_diff", "raises") \/ Logged("evaluate", "raises")))
          => details.governance = "error" /\ status = "none"
    /\ (/\ req.kind = "feature"
        /\ req.create_pr
        /\ ~req.dry_run
        /\ Logged("contract_exists", "True")
        /\ ~CodegenRaised
        /\ pc \in {"f_smoke", "f_status", "done"}) => Called("_create_pr")

\* C7 witness: the policy evaluation raised and the change request was still
\* created.
C7_Witness ==
    /\ pc = "done"
    /\ status = "accepted"
    /\ Logged("evaluate", "raises")
    /\ Logged("_create_pr", "stub")
    /\ details.governance = "error"

\* C8: a feature workflow with dry_run = true whose config, repository and
\* design contract all exist returns `accepted` without executing codegen,
\* tests, remediation, policy evaluation, change-request creation or smoke,
\* whatever the other flags, and its details hold none of workflow_status,
\* tests_passed, smoke_passed, governance_ok.
C8_DryRunRunsNothing ==
    (/\ pc = "done"
     /\ req.kind = "feature"
     /\ req.dry_run
     /\ ProjectAvailable
     /\ Logged("contract_exists", "True")) =>
        /\ status = "accepted"
        /\ details.dry_run = "True"
        /\ NoOptionalStepRan
        /\ ~Called("_compute_workflow_status")
        /\ NoStatusFields

\* C8 witness: a dry run with every other flag set has returned.
C8_Witness ==
    /\ pc = "done"
    /\ req.kind = "feature"
    /\ req.dry_run /\ req.run_codegen /\ req.run_tests /\ req.create_pr
    /\ req.run_smoke /\ req.run_bugfix
    /\ Logged("contract_exists", "True")
    /\ status = "accepted"

\* C9: a feature workflow returns `rejected`, with no workflow_status and no
\* optional step executed, when the config is not found, when the repository
\* cannot be resolved, or when the design contract does not exist; the checks
\* are made in that order and before dry_run is consulted.  The bugfix
\* workflow rejects the same way on missing config or missing repository.
C9_RejectionsInOrder ==
    /\ Logged("load_project_config", "FileNotFoundError") =>
          /\ pc = "done" /\ status = "rejected"
          /\ message = "Project config not found"
          /\ Len(calls) = 1
    /\ Logged("get_repo_path", "None") =>
          /\ pc = "done" /\ status = "rejected"
          /\ message = "Project repository not found"
          /\ Len(calls) = 2 /\ calls[1] = Call("load_project_config", "ok")
    /\ Logged("contract_exists", "False") =>
          /\ req.kind = "feature"
          /\ pc = "done" /\ status = "rejected"
          /\ message = "Design contract missing"
          /\ Len(calls) = 4
          /\ calls[1] = Call("load_project_config", "ok")
          /\ calls[2].call = "get_repo_path"
          /\ calls[3] = Call("set_repo_path", "ok")
    /\ status = "rejected" =>
          /\ NoOptionalStepRan
          /\ NoStatusFields
          /\ \/ Logged("load_project_config", "FileNotFoundError")
             \/ Logged("get_repo_path", "None")
             \/ Logged("contract_exists", "False")

\* C9 witness: a dry-run request asking for every step is rejected for its
\* missing contract.
C9_Witness ==
    /\ status = "rejected"
    /\ message = "Design contract missing"
    /\ req.dry_run /\ req.run_tests /\ req.create_pr

\* C10: a feature workflow with dry_run = true for a project whose config and
\* repository exist returns `accepted` with details.dry_run = true even when
\* the design contract file does not exist.
C10_DryRunNeedsNoContract ==
    (/\ pc = "done"
     /\ req.kind = "feature"
     /\ req.dry_run
     /\ ProjectAvailable
     /\ Logged("contract_exists", "False")) =>
        /\ status = "accepted"
        /\ details.dry_run = "True"

\* C11: every non-dry-run invocation of either workflow that runs to
\* completion (returns `accepted`) resolved its status exactly once and holds
\* that one value, a member of {success, failed_tests, failed_smoke,
\* failed_governance, error}, in the workflow_status field of its report.
C11_OneWorkflowStatus ==
    (pc = "done" /\ status = "accepted" /\ ~req.dry_run) =>
        /\ Cardinality({i \in DOMAIN calls : calls[i].call = "_compute_workflow_status"}) = 1
        /\ calls[Len(calls)].call = "_compute_workflow_status"
        /\ details.workflow_status = calls[Len(calls)].outcome
        /\ details.workflow_status \in WorkflowStatus

\* C11 witness: a bugfix invocation completed with workflow_status
\* failed_tests.
C11_Witness ==
    /\ pc = "done"
    /\ status = "accepted"
    /\ req.kind = "bugfix"
    /\ details.workflow_status = FAILED_TESTS

\* the statuses the data model lists for a step outcome
StepStatuses == {"skipped", "passed", "failed", "error", "timeout"}

\* C12 (as stated): every test_result and smoke_result recorded in a report
\* has a status among skipped, passed, failed, error, timeout.
C12_StepStatusesAsStated ==
    /\ details.test_result \in StepStatuses \cup {"absent"}
    /\ details.smoke_result \in StepStatuses \cup {"absent"}

\* C12 (amended): a recorded test_result has a status among skipped, passed,
\* failed, error; a recorded smoke_result has a status among skipped, passed,
\* failed, error, timeout, install_failed.
C12_StepStatuses ==
    /\ details.test_result \in {"skipped", "passed", "failed", "error", "absent"}
    /\ details.smoke_result \in StepStatuses \cup {"install_failed", "absent"}
    /\ \A i \in DOMAIN calls :
          /\ calls[i].call = "_run_tests" =>
                calls[i].outcome \in {"skipped", "passed", "failed", "error"}
          /\ calls[i].call = "_run_smoke" =>
                calls[i].outcome \in StepStatuses \cup {"install_failed"}

\* C12 witness: an accepted report records a smoke outcome `install_failed`
\* next to a test outcome `error`.
C12_Witness ==
    /\ pc = "done"
    /\ status = "accepted"
    /\ details.test_result = "error"
    /\ details.smoke_result = "install_failed"

\* C13: when the test command cannot be started or does not complete (the
\* execution raises OSError or TimeoutExpired), _run_tests returns status
\* `error`; the workflow is not aborted: it ends with a returned report,
\* status resolution has run and has treated the step exactly like a `failed`
\* one, and the report has tests_passed = false and workflow_status =
\* failed_tests.
C13_TestErrorCountsAsFailed ==
    /\ \A i \in DOMAIN calls :
          (calls[i].call = "test_command" /\ calls[i].outcome \in {"TimeoutExpired", "OSError"})
              => i < Len(calls) /\ calls[i + 1] = Call("_run_tests", "error")
    /\ (pc = "done" /\ Logged("_run_tests", "error")) =>
          /\ status = "accepted"
          /\ Called("_compute_workflow_status")
          /\ rs_in.run_tests /\ rs_in.tests_passed = "False"
          /\ details.test_result = "error"
          /\ details.tests_passed = "False"
          /\ details.workflow_status = FAILED_TESTS

\* C14: when the install command of the selected smoke target exits nonzero,
\* _run_smoke returns status `install_failed` at once and the smoke command
\* is never executed; the smoke command is executed only directly after an
\* install command that exited with code zero, or with no install command
\* before it.
C14_InstallFailureShortCircuits ==
    /\ \A i \in DOMAIN calls :
          calls[i] = Call("install_command", "exit_nonzero") =>
              i < Len(calls) /\ calls[i + 1] = Call("_run_smoke", "install_failed")
    /\ Logged("_run_smoke", "install_failed") =>
          Logged("install_command", "exit_nonzero") /\ ~Called("smoke_command")
    /\ Logged("install_command", "exit_nonzero") => ~Called("smoke_command")
    /\ \A j \in DOMAIN calls :
          (calls[j].call = "smoke_command" /\ Called("install_command")) =>
              j > 1 /\ calls[j - 1] = Call("install_command", "exit_zero")
    /\ \A i, j \in DOMAIN calls :
          (calls[i].call = "install_command" /\ calls[j].call = "smoke_command") => i < j

\* C14 witness: the install command exited nonzero and the workflow returned
\* with the smoke outcome install_failed.
C14_Witness ==
    /\ pc = "done"
    /\ status = "accepted"
    /\ Logged("install_command", "exit_nonzero")
    /\ details.smoke_result = "install_failed"

\* C15: when the smoke command or its install command exceeds the timeout,
\* _run_smoke returns status `timeout`; when either raises any other
\* exception it returns status `error`; in both cases nothing is raised to
\* the workflow, which records the outcome and goes on to status resolution.
C15_SmokeExceptionsAreCaught ==
    /\ \A i \in DOMAIN calls :
          calls[i].call \in {"install_command", "smoke_command"} =>
              /\ i < Len(calls)
              /\ calls[i].outcome = "TimeoutExpired" => calls[i + 1] = Call("_run_smoke", "timeout")
              /\ calls[i].outcome = "OSError" => calls[i + 1] = Call("_run_smoke", "error")
    /\ Logged("_run_smoke", "timeout") =>
          \/ Logged("install_command", "TimeoutExpired")
          \/ Logged("smoke_command", "TimeoutExpired")
    /\ Logged("_run_smoke", "error") =>
          Logged("install_command", "OSError") \/ Logged("smoke_command", "OSError")
    /\ Called("_run_smoke") =>
          /\ status # "raised"
          /\ pc \in {"f_status", "done"}
          /\ details.smoke_result = OutcomeOf("_run_smoke")

\* C15 witness: the install command timed out and the workflow returned a
\* report with the smoke outcome timeout.
C15_Witness ==
    /\ pc = "done"
    /\ status = "accepted"
    /\ Logged("install_command", "TimeoutExpired")
    /\ details.smoke_result = "timeout"
    /\ details.workflow_status = FAILED_SMOKE

\* C16: a bugfix workflow never executes codegen, policy evaluation,
\* change-request creation or smoke; its report has smoke_passed = null and
\* governance_ok = null, and its workflow_status is failed_tests when tests
\* were requested and the test step did not end `passed`, success otherwise.
C16_BugfixWorkflowScope ==
    req.kind = "bugfix" =>
        /\ \A c \in {"generate_artifacts", "evaluate", "_create_pr", "_run_smoke",
                     "install_command", "smoke_command", "contract_exists"} : ~Called(c)
        /\ details.pr = "absent" /\ details.smoke_result = "absent"
        /\ details.governance = "absent"
        /\ details.smoke_passed \in {"None", "absent"}
        /\ details.governance_ok \in {"None", "absent"}
        /\ details.workflow_status \in {FAILED_TESTS, SUCCESS, "absent"}
        /\ (pc = "done" /\ status = "accepted") =>
              /\ details.smoke_passed = "None"
              /\ details.governance_ok = "None"
              /\ details.workflow_status =
                    IF req.run_tests /\ OutcomeOf("_run_tests") # "passed"
                        THEN FAILED_TESTS ELSE SUCCESS

\* C16 witness: a bugfix workflow whose requested test step was skipped for
\* want of a test command returned failed_tests.
C16_Witness ==
    /\ pc = "done"
    /\ status = "accepted"
    /\ req.kind = "bugfix"
    /\ req.run_tests
    /\ details.test_result = "skipped"
    /\ details.workflow_status = FAILED_TESTS

\* the tokens a step may leave in the step list: run, or skipped
StepTokens(name) == {name, name \o " (skipped)", name \o " (skipped, dry_run)"}

\* the optional steps of each state machine, in execution order, by the name
\* their token carries (the bugfix workflow records its config and repository
\* resolution as load_project_config)
FeatureSteps ==
    <<"invoke_codegen_agent", "run_tests", "run_bugfix", "governance_check",
      "prepare_pull_request", "run_smoke">>
BugfixSteps == <<"load_project_config", "run_tests", "run_bugfix">>

\* the step list holds exactly one token of every step, in the steps' order
StepListCovers(steps, order) ==
    LET names == {order[k] : k \in DOMAIN order}
        tokens == UNION {StepTokens(n) : n \in names}
        IsStepToken(t) == t \in tokens
        found == SelectSeq(steps, IsStepToken)
    IN  /\ Len(found) = Len(order)
        /\ \A k \in DOMAIN order : found[k] \in StepTokens(order[k])

\* C17: in every accepted report of a workflow that went through its steps
\* the step list contains, in execution order, exactly one token for every
\* step of the state machine (feature: codegen, tests, remediation, policy
\* evaluation, change-request creation, smoke; bugfix: repository resolution,
\* tests, remediation), qualified "(skipped)" when the step was not executed.
C17_StepListComplete ==
    (pc = "done" /\ status = "accepted" /\ ~req.dry_run) =>
        StepListCovers(details.workflow_steps,
                       IF req.kind = "feature" THEN FeatureSteps ELSE BugfixSteps)

\* C18: a non-dry-run feature workflow with run_tests and run_smoke requested
\* and create_pr not requested, whose test command and smoke command both
\* exit 0, returns `accepted` with tests_passed = true, smoke_passed = true,
\* governance_ok = null and workflow_status = success; and governance_ok is
\* null in every report of a feature workflow that did not request create_pr.
C18_GoldenPath ==
    /\ (/\ pc = "done"
        /\ req.kind = "feature" /\ ~req.dry_run
        /\ req.run_tests /\ req.run_smoke /\ ~req.create_pr
        /\ Logged("test_command", "exit_zero")
        /\ Logged("smoke_command", "exit_zero")) =>
          /\ status = "accepted"
          /\ details.tests_passed = "True"
          /\ details.smoke_passed = "True"
          /\ details.governance_ok = "None"
          /\ details.workflow_status = SUCCESS
    /\ (req.kind = "feature" /\ ~req.create_pr) =>
          /\ ~Called("evaluate")
          /\ details.governance_ok \in {"None", "absent"}
          /\ (pc = "done" /\ status = "accepted" /\ ~req.dry_run) =>
                details.governance_ok = "None"

\* C18 witness: the golden path has returned, with codegen and remediation
\* requested as well.
C18_Witness ==
    /\ pc = "done"
    /\ req.kind = "feature" /\ ~req.dry_run
    /\ req.run_codegen /\ req.run_tests /\ req.run_smoke /\ req.run_bugfix
    /\ ~req.create_pr
    /\ Logged("test_command", "exit_zero")
    /\ Logged("install_command", "exit_zero")
    /\ Logged("smoke_command", "exit_zero")
    /\ details.workflow_status = SUCCESS

\* C19: evaluate returns ok = true if and only if its violation list holds no
\* violation of severity `error`; forbidden_paths and allowed_dependencies
\* violations are errors, require_tests_for_code violations are warnings and
\* leave ok true, for every diff and rule configuration.
C19_OkIffNoErrorViolation ==
    gov.pc = "done" =>
        /\ gov.ok = PyBool(~\E i \in DOMAIN gov.violations :
                               gov.violations[i].severity = "error")
        /\ \A i \in DOMAIN gov.violations :
              gov.violations[i].severity =
                  IF gov.violations[i].rule_name = "require_tests_for_code"
                      THEN "warning" ELSE "error"
        /\ (\A i \in DOMAIN gov.violations :
                gov.violations[i].rule_name = "require_tests_for_code") => gov.ok = "True"

\* C19 witness: evaluate returned ok = true with a warning in its list.
C19_Witness ==
    /\ gov.pc = "done"
    /\ gov.ok = "True"
    /\ \E i \in DOMAIN gov.violations : gov.violations[i].severity = "warning"

\* C20: evaluate emits exactly one forbidden_paths violation, of severity
\* error, for each file changed by the diff that matches a forbidden pattern
\* and none for any other file; a diff touching only secrets/api.key under
\* the default policy yields exactly one such violation and ok = false.
C20_OneViolationPerForbiddenFile ==
    gov.pc = "done" =>
        LET patterns == forbidden_paths_of(gov.config)
            files == ChangedByDiff(gov.sections)
            found == {i \in DOMAIN gov.violations :
                         gov.violations[i].rule_name = "forbidden_paths"}
        IN  /\ \A i \in found : gov.violations[i].severity = "error"
            /\ \A f \in files :
                  Cardinality({i \in found : gov.violations[i].file_path = f}) =
                      IF _matches_patterns(f, patterns) THEN 1 ELSE 0
            /\ \A i \in found : gov.violations[i].file_path \in files
            /\ (files = {secrets_api_key} /\ ~gov.config.has_forbidden_paths) =>
                  Cardinality(found) = 1 /\ gov.ok = "False"

\* C21: with the require-tests rule enabled and language python, a diff that
\* touches only one .py source file, in a directory or at the repository
\* root, and no test file yields exactly one violation, of rule
\* require_tests_for_code and severity warning, and ok = true.
C21_CodeWithoutTestsWarns ==
    (/\ gov.pc = "done"
     /\ gov.config.require_tests_for_code
     /\ lower(gov.config.language) = lang_python
     /\ \E f \in {src_app_py, app_py} : ChangedByDiff(gov.sections) = {f}) =>
        /\ Len(gov.violations) = 1
        /\ gov.violations[1].rule_name = "require_tests_for_code"
        /\ gov.violations[1].severity = "warning"
        /\ gov.ok = "True"

\* the two header lines of a modified file
OldHeader(path) == <<"-", "-", "-", " ", "a", "/">> \o path
NewHeader(path) == <<"+", "+", "+", " ", "b", "/">> \o path

\* C23: parsing the same diff again yields the same ordered list, with either
\* copy of the parser, and a file whose diff holds both the header --- a/p
\* and the header +++ b/p has exactly one entry in the list.
C23_ParserDeterministicAndDeduplicating ==
    gov.pc \notin {"none", "extract"} =>
        /\ gov.changed_files = _extract_changed_files(gov.diff)
        /\ gov.changed_files = _extract_changed_files_from_diff(gov.diff)
        /\ \A k \in DOMAIN gov.sections :
              gov.sections[k].kind = "modified" =>
                  LET p == gov.sections[k].path
                      entries == {changed_file_of(OldHeader(p)), changed_file_of(NewHeader(p))}
                  IN  Cardinality({i \in DOMAIN gov.changed_files :
                                      gov.changed_files[i] \in entries}) = 1

\* the paths of the sections in order of first appearance
RECURSIVE PathsInOrder(_, _)
PathsInOrder(sections, seen) ==
    IF sections = <<>> THEN seen
    ELSE PathsInOrder(Tail(sections),
                      IF InList(Head(sections).path, seen) THEN seen
                      ELSE Append(seen, Head(sections).path))

\* C24: the parser returns, in order of first appearance, exactly the paths
\* named on the header lines, each with its single leading a/ or b/ removed
\* and the rest unchanged, and never an entry for /dev/null.
C24_ParserReturnsHeaderPaths ==
    gov.pc \notin {"none", "extract"} =>
        gov.changed_files = PathsInOrder(gov.sections, <<>>)

\* a forbidden_paths error for file f is in the list
Flagged(f) ==
    \E i \in DOMAIN gov.violations :
        /\ gov.violations[i].rule_name = "forbidden_paths"
        /\ gov.violations[i].severity = "error"
        /\ gov.violations[i].file_path = f

\* C30: under the default forbidden paths a changed .env at the repository
\* root is flagged with a forbidden_paths error and makes ok false, exactly as
\* the .env of a subdirectory is.
C30_RootLevelFilesFlagged ==
    (gov.pc = "done" /\ ~gov.config.has_forbidden_paths) =>
        \A f \in {dot_env, app_env} :
            f \in ChangedByDiff(gov.sections) => Flagged(f) /\ gov.ok = "False"

\* the requirements.txt lines of the inputs that add name==version, with name
requests_name == <<"r", "e", "q", "u", "e", "s", "t", "s">>
fastapi_name == <<"f", "a", "s", "t", "a", "p", "i">>
AddedPins ==
    {<<added_requests, requests_name>>, <<added_requests_2_0, requests_name>>,
     <<added_fastapi, fastapi_name>>}

\* the lines of the requirements.txt sections of a diff
ManifestLines(sections) ==
    UNION {{sections[k].body[j] : j \in DOMAIN sections[k].body} :
              k \in {i \in DOMAIN sections : sections[i].path = requirements_txt}}

\* the allowed_dependencies violations of the returned list
DependencyErrors ==
    SelectSeq(gov.violations, LAMBDA v : v.rule_name = "allowed_dependencies")

\* C22: with a non-empty python allow-list, an added requirements.txt line
\* name==version yields an allowed_dependencies error naming name exactly when
\* name matches no allow-list entry; allow-list [fastapi] with requests==2.0
\* added yields exactly one error naming requests and ok = false, with
\* fastapi==1.0 added it yields no violation; removed and context lines
\* yield no violation.
C22_AllowListRefusesUnlistedAdditions ==
    (/\ gov.pc = "done"
     /\ lower(gov.config.language) = lang_python
     /\ gov.config.allowed_dependencies # <<>>) =>
        LET deps_list == gov.config.allowed_dependencies[lang_python]
            lines == ManifestLines(gov.sections)
            named(dep) == \E i \in DOMAIN DependencyErrors :
                              /\ DependencyErrors[i].message = dep
                              /\ DependencyErrors[i].severity = "error"
        IN  /\ \A pin \in AddedPins :
                  pin[1] \in lines =>
                      (named(pin[2]) <=> ~_matches_patterns(pin[2], deps_list))
            /\ (gov.config.allowed_dependencies = FastapiOnly /\ Len(gov.sections) = 1) =>
                  /\ lines = {added_requests_2_0} =>
                        /\ Len(gov.violations) = 1
                        /\ gov.violations[1].rule_name = "allowed_dependencies"
                        /\ gov.violations[1].severity = "error"
                        /\ gov.violations[1].message = requests_name
                        /\ gov.ok = "False"
                  /\ lines = {added_fastapi} => gov.violations = <<>> /\ gov.ok = "True"
            /\ (lines # {} /\ lines \subseteq {removed_requests, context_requests}) =>
                  DependencyErrors = <<>>
            /\ \A i \in DOMAIN DependencyErrors :
                  \E l \in lines : l[1] = "+" /\ startswith(Tail(l), DependencyErrors[i].message)

\* requests==2.0 was added under the allow-list [fastapi] and refused
C22_Witness ==
    /\ gov.pc = "done"
    /\ gov.config.language = lang_python
    /\ gov.config.allowed_dependencies = FastapiOnly
    /\ Len(gov.sections) = 1
    /\ ManifestLines(gov.sections) = {added_requests_2_0}
    /\ Len(DependencyErrors) = 1
    /\ gov.ok = "False"

\* the call that starts each step of the feature workflow, in the stated order
FeatureStepCalls ==
    <<"load_project_config", "contract_exists", "generate_artifacts", "_run_tests",
      "_run_bugfix", "get_diff", "_create_pr", "_run_smoke", "_compute_workflow_status">>

StepRank(c) == CHOOSE k \in DOMAIN FeatureStepCalls : FeatureStepCalls[k] = c

\* the steps executed so far, in order of execution
ExecutedSteps ==
    SelectSeq(calls, LAMBDA e : \E k \in DOMAIN FeatureStepCalls : FeatureStepCalls[k] = e.call)

\* C27: in a feature workflow invocation the executed steps form a subsequence
\* of config load, contract validation, codegen, tests, remediation, policy
\* evaluation, change-request creation, smoke, status resolution: each step
\* at most once and never before a step that precedes it, and status
\* resolution only after every requested step has finished.
C27_StepsInFixedOrder ==
    req.kind = "feature" =>
        /\ \A i, j \in DOMAIN ExecutedSteps :
              i < j => StepRank(ExecutedSteps[i].call) < StepRank(ExecutedSteps[j].call)
        /\ Called("_compute_workflow_status") =>
              /\ calls[Len(calls)].call = "_compute_workflow_status"
              /\ req.run_codegen => Called("generate_artifacts")
              /\ req.run_tests => Called("_run_tests")
              /\ feature_bugfix_gate(req.run_bugfix, OutcomeOf("_run_tests")) =>
                    Called("_run_bugfix")
              /\ req.create_pr => Called("get_diff") /\ Called("_create_pr")
              /\ req.run_smoke => Called("_run_smoke")

\* an invocation that executed all nine steps
C27_Witness ==
    /\ req.kind = "feature"
    /\ pc = "done"
    /\ Len(ExecutedSteps) = Len(FeatureStepCalls)

\* C28: a requested test or smoke step counts as passed only when its status
\* is exactly passed: requested tests that return skipped give tests_passed
\* = false and workflow_status failed_tests; a requested smoke step that
\* returns skipped or install_failed gives smoke_passed = false and, unless
\* tests failed, workflow_status failed_smoke.
C28_OnlyPassedCountsAsPassed ==
    (req.kind = "feature" /\ status = "accepted" /\ ~req.dry_run) =>
        /\ req.run_tests =>
              /\ details.tests_passed = "True" <=> details.test_result = "passed"
              /\ details.test_result = "skipped" =>
                    /\ details.tests_passed = "False"
                    /\ details.workflow_status = "failed_tests"
        /\ req.run_smoke =>
              /\ details.smoke_passed = "True" <=> details.smoke_result = "passed"
              /\ details.smoke_result \in {"skipped", "install_failed"} =>
                    /\ details.smoke_passed = "False"
                    /\ ~(req.run_tests /\ details.tests_passed = "False") =>
                          details.workflow_status = "failed_smoke"

\* a report whose tests were skipped and whose smoke install failed
C28_Witness ==
    /\ req.kind = "feature"
    /\ status = "accepted"
    /\ req.run_tests /\ req.run_smoke
    /\ details.test_result = "skipped"
    /\ details.smoke_result = "install_failed"
    /\ details.workflow_status = "failed_tests"

\* C29: when create_pr is requested and get_diff or evaluate raises, the
\* report has governance_ok null, details.governance holds only the error, no
\* governance_check token is in the step list, and workflow_status is never
\* failed_governance: it is what the same run without the policy request
\* would get, success when tests and smoke are clean.
C29_FailedEvaluationReportedAsNotRequested ==
    (/\ req.kind = "feature"
     /\ status = "accepted"
     /\ req.create_pr
     /\ Logged("get_diff", "raises") \/ Logged("evaluate", "raises")) =>
        /\ details.governance_ok = "None"
        /\ details.governance = "error"
        /\ \A i \in DOMAIN details.workflow_steps :
              details.workflow_steps[i] # "governance_check"
        /\ details.workflow_status # "failed_governance"
        /\ (details.tests_passed # "False" /\ details.smoke_passed # "False") =>
              details.workflow_status = "success"
        /\ details.workflow_status =
              _compute_workflow_status(details.tests_passed, req.run_tests,
                                       details.smoke_passed, req.run_smoke, "None", FALSE)

\* a report of a run whose policy evaluation raised and that ended success
C29_Witness ==
    /\ req.kind = "feature"
    /\ status = "accepted"
    /\ req.create_pr
    /\ Logged("evaluate", "raises")
    /\ details.workflow_status = "success"

\* C25: when two invocations for different projects interleave on the same
\* OrchestratorAgent, the repository on which each computes its governance
\* diff and creates its branch and commit is its own project's repository.
C25_InvocationsUseOwnRepository ==
    \A p \in DOMAIN threads :
        threads[p].workflow = "feature" =>
            \A i \in DOMAIN threads[p].ops : threads[p].ops[i].repo = p

\* C26: create_feature_contract_from_idea on a project whose questionnaire
\* intent is locked raises the ValueError that reports the locked intent,
\* before any use of the text-generation client and without writing a
\* contract file, also for an agent constructed with llm_client=None where
\* no text-generation client is available.
C26_LockedIntentRefused ==
    (/\ product.pc = "done"
     /\ product.method = "create_feature_contract_from_idea"
     /\ product.repo_path # "None"
     /\ intent_locked(product.questionnaire)) =>
        /\ product.raised = "ValueError: intent is locked"
        /\ product.generate_calls = 0
        /\ ~product.written

=============================================================================
